---- MODULE Spec2Model ----
(***************************************************************************)
(* A model of touche, a synchronous HTTP/1.x server and client core.      *)
(*                                                                         *)
(*   SpecWR  the message writers (response.rs write_response, request.rs   *)
(*           write_request) applied to bounded messages                    *)
(*   SpecRQ  the read-queue trampoline (read_queue.rs) with one thread per *)
(*           QueuedReader; SpecRQFair adds that every holder drops its     *)
(*           QueuedReader                                                  *)
(*   Spec    the connection loop (server.rs serve) fed by a pipelining     *)
(*           client                                                        *)
(*   SpecClient  the same loop with a client that may wait for 100         *)
(*           Continue before sending a body, or stop inside a head         *)
(*   SpecWriteBody  the writers and the loop side by side                  *)
(*   SpecParse  the body a parsed message gets (request.rs parse_request,  *)
(*           ChunkedReader) and its consumption, on bounded streams        *)
(*   SpecRoundTrip  a chunked body written by the writers and read back    *)
(*           by ChunkedReader                                              *)
(*   SpecBody  the views of a body (body.rs into_bytes, into_reader,       *)
(*           into_chunks) side by side                                     *)
(*   SpecServer  the acceptor loops (server.rs serve, make_service,        *)
(*           serve_single_thread) and the thread pool; SpecServerFair      *)
(*           adds the workers' progress                                    *)
(*   SpecSend  the client (client.rs send, response.rs parse_response)     *)
(*           exchanging messages over one connection                       *)
(*                                                                         *)
(* Byte strings are modelled by their lengths; header maps by the typed    *)
(* headers the code reads (Transfer-Encoding, Content-Length, Connection). *)
(***************************************************************************)
EXTENDS Integers, Sequences, FiniteSets, TLC

VARIABLES
    wrIn,      \* SpecWR: the message handed to the writer
    wrOut,     \* SpecWR: what the writer returned and put on the stream
    wrPc,      \* SpecWR: "ready" | "done" | "off"
    rqHead,    \* SpecRQ: the ReadQueue is ReadQueue::Head(reader)
    rqAlive,   \* SpecRQ: the ReadQueue has not been dropped
    qr,        \* SpecRQ: QueuedReader i is "Current" | "Waiting" | "Dropped"
    chan,      \* SpecRQ: chan[i] = readers in flight from QueuedReader i to i+1
    rqRead,    \* SpecRQ: rqRead[i] = bytes QueuedReader i has obtained
    rqGot,     \* SpecRQ: the QueuedReaders that obtained the reader, in order
    wire,      \* Spec: the blocks of bytes sent and not yet read, in order
    closed,    \* Spec: the client has shut its sending side
    sent,      \* Spec: the requests the client has sent
    owed,      \* Spec: body blocks the client withholds until 100 Continue
    pc,        \* Spec: where serve is
    held,      \* Spec: who has the underlying reader
    req,       \* Spec: the request parsed last
    resps,     \* Spec: the responses put on the stream, in order
    parseAt,   \* Spec: the kind of block the last parse_request started at
    stolen,    \* Spec: the last body view consumed blocks of a later request
    last,      \* Spec: the response cycle just completed
    pbIn,      \* SpecParse: the header fields and the bytes after the head;
               \* SpecRoundTrip: also the chunks the body to write yields
    pbOut,     \* SpecParse: what parse_request made of them, then the body's bytes
    pbPc,      \* SpecParse: "ready" | "parsed" | "consumed" | "off"
    bdIn,      \* SpecBody: the body handed to the views
    bdOut,     \* SpecBody: what each view made of it, once it has run
    svMode,    \* SpecServer: the Server method called
    svIter,    \* SpecServer: the next connection the iterator yields
    svQueue,   \* SpecServer: jobs given to the thread pool and not yet started
    svRunning, \* SpecServer: jobs whose connection loop runs
    svConn,    \* SpecServer: svConn[c] = where connection c is, and its counts
    svCalls,   \* SpecServer: <<connection, handler>> of the requests handled
    svMade,    \* SpecServer: handlers made so far (clones, hook results)
    svFailed,  \* SpecServer: connections whose loop returned Err
    svRet,     \* SpecServer: what the Server method returned, "none" before
    clRq,      \* SpecSend: the exchanges started on the connection, in order
    clSock,    \* SpecSend: blocks the server sent, not yet read off the socket
    clBuf,     \* SpecSend: clBuf[r] = blocks held by the BufReader of send r
    clRes,     \* SpecSend: clRes[r] = what send r returned, and its body's bytes
    clConn     \* SpecSend: "open" | "closed" | "upgraded" | "lost" | "stuck" | "off"

wrVars == <<wrIn, wrOut, wrPc>>
rqVars == <<rqHead, rqAlive, qr, chan, rqRead, rqGot>>
cnVars == <<wire, closed, sent, owed, pc, held, req, resps, parseAt, stolen, last>>
pbVars == <<pbIn, pbOut, pbPc>>
bdVars == <<bdIn, bdOut>>
svVars == <<svMode, svIter, svQueue, svRunning, svConn, svCalls, svMade, svFailed, svRet>>
clVars == <<clRq, clSock, clBuf, clRes, clConn>>
vars == <<wrVars, rqVars, cnVars, pbVars, bdVars, svVars, clVars>>

(***************************************************************************)
(* Bounds and program constants                                            *)
(***************************************************************************)
MaxItems == 2          \* items of an iterator / channel body
MaxReaders == 3        \* QueuedReaders enqueued on one ReadQueue
MaxReads == 2          \* bytes one QueuedReader obtains
MaxReqs == 2           \* requests the client pipelines on one connection
MaxChunks == 3         \* entries of a chunked body on the wire
MaxWritten == 3        \* chunks of a body written chunked
MaxConns == 3          \* connections the iterator yields
MaxThreads == 2        \* max_threads of the server's thread pool
MaxConnReqs == 2       \* requests handled on one connection
MaxSends == 2          \* exchanges the client starts on one connection

SmallBody == 1024      \* "Just buffer small bodies": len < 1024
ReadBuf == 8192        \* ChunkIterator's read buffer, 8 * 1024

None == -1             \* Option::None for lengths

Min(a, b) == IF a < b THEN a ELSE b

\* Byte lengths the bounded messages use: empty, small, at the threshold.
Lens == {0, 3, SmallBody}

(***************************************************************************)
(* body.rs: Body, its length oracle and its three consumption views        *)
(***************************************************************************)
\* An item of BodyInner::Iter: io::Result<Chunk>.
DataItem(n) == [t |-> "Data", n |-> n]
TrailersItem == [t |-> "Trailers", n |-> 0]
ErrItem == [t |-> "Err", n |-> 0]

\* enum BodyInner { Empty, Buffered(Vec<u8>), Iter(..), Reader(.., Option<usize>) }
\* n: buffered length / bytes the reader's source can supply; len: declared.
EmptyBody == [k |-> "Empty", n |-> 0, len |-> None, items |-> <<>>]
BufferedBody(n) == [k |-> "Buffered", n |-> n, len |-> None, items |-> <<>>]
IterBody(items) == [k |-> "Iter", n |-> 0, len |-> None, items |-> items]
ReaderBody(avail, len) == [k |-> "Reader", n |-> avail, len |-> len, items |-> <<>>]

\* HttpBody::len for Body
BodyLen(b) ==
    CASE b.k = "Empty" -> 0
      [] b.k = "Buffered" -> b.n
      [] b.k = "Iter" -> None
      [] b.k = "Reader" -> b.len

RECURSIVE DataBeforeErr(_)
\* The data chunk sizes an Iter body yields before its first Err item
\* (trailers filtered out).
DataBeforeErr(items) ==
    IF items = <<>> \/ Head(items).t = "Err" THEN <<>>
    ELSE IF Head(items).t = "Data"
         THEN <<Head(items).n>> \o DataBeforeErr(Tail(items))
         ELSE DataBeforeErr(Tail(items))

RECURSIVE TrailersBeforeErr(_)
TrailersBeforeErr(items) ==
    IF items = <<>> \/ Head(items).t = "Err" THEN 0
    ELSE (IF Head(items).t = "Trailers" THEN 1 ELSE 0) + TrailersBeforeErr(Tail(items))

HasErr(items) == \E i \in 1..Len(items) : items[i].t = "Err"

RECURSIVE SumSeq(_)
SumSeq(s) == IF s = <<>> THEN 0 ELSE Head(s) + SumSeq(Tail(s))

\* into_bytes with the Reader arm reading the reader itself to its end.
IntoBytes_NoTake(b) ==
    CASE b.k = "Empty" -> [ok |-> TRUE, n |-> 0]
      [] b.k = "Buffered" -> [ok |-> TRUE, n |-> b.n]
      [] b.k = "Iter" ->
            IF HasErr(b.items) THEN [ok |-> FALSE, n |-> 0]
            ELSE [ok |-> TRUE, n |-> SumSeq(DataBeforeErr(b.items))]
      [] b.k = "Reader" -> [ok |-> TRUE, n |-> b.n]

\* Body::into_bytes: [ok, n]. The Iter arm collects io::Result and fails on
\* an Err item; the Reader arm reads stream.take(len) to its end.
IntoBytes(b) ==
    CASE b.k = "Empty" -> [ok |-> TRUE, n |-> 0]
      [] b.k = "Buffered" -> [ok |-> TRUE, n |-> b.n]
      [] b.k = "Iter" ->
            IF HasErr(b.items) THEN [ok |-> FALSE, n |-> 0]
            ELSE [ok |-> TRUE, n |-> SumSeq(DataBeforeErr(b.items))]
      [] b.k = "Reader" ->
            [ok |-> TRUE, n |-> IF b.len = None THEN b.n ELSE Min(b.len, b.n)]

\* Reading Body::into_reader to its end (io::copy): the bytes delivered.
\* BodyReader's Iter arm turns an Err item into the end of the stream
\* (unwrap_or_default on the first chunk, next.ok() afterwards).
ReaderBytes(b) ==
    CASE b.k = "Empty" -> 0
      [] b.k = "Buffered" -> b.n
      [] b.k = "Iter" -> SumSeq(DataBeforeErr(b.items))
      [] b.k = "Reader" -> IF b.len = None THEN b.n ELSE Min(b.len, b.n)

RECURSIVE ReaderChunks(_, _)
\* ChunkIterator's Reader arm: each step reads up to ReadBuf bytes from the
\* reader itself (no take); with a declared length it goes on while
\* len.checked_sub(bytes) is Some(rem) with rem > 0.
ReaderChunks(avail, len) ==
    IF avail = 0 THEN <<>>
    ELSE LET got == Min(ReadBuf, avail)
         IN  IF len = None THEN <<got>> \o ReaderChunks(avail - got, None)
             ELSE IF len - got > 0 THEN <<got>> \o ReaderChunks(avail - got, len - got)
             ELSE <<got>>

\* Body::into_chunks run to its end: the Data chunk sizes in order and the
\* number of Trailers blocks. The Iter arm stops at an Err item
\* (iter.next()?.ok()?) without yielding it.
IntoChunks(b) ==
    CASE b.k = "Empty" -> [data |-> <<>>, trailers |-> 0]
      [] b.k = "Buffered" -> [data |-> <<b.n>>, trailers |-> 0]
      [] b.k = "Iter" -> [data |-> DataBeforeErr(b.items),
                          trailers |-> TrailersBeforeErr(b.items)]
      [] b.k = "Reader" -> [data |-> ReaderChunks(b.n, b.len), trailers |-> 0]

(***************************************************************************)
(* response.rs / request.rs: the message writers                           *)
(***************************************************************************)
\* The typed headers the writers read and set. te: "none" | "chunked" |
\* "other" (a Transfer-Encoding whose last coding is not chunked); cl: the
\* Content-Length or None; conn: the tokens of the Connection header.
Headers(te, cl, conn) == [te |-> te, cl |-> cl, conn |-> conn]

NoBodyOut == [bytes |-> 0, chunks |-> <<>>, term |-> FALSE, trailers |-> 0]

\* What the framing decision of write_response yields: it fails
\* (ok = FALSE), or gives Encoding and the headers as amended.
EncodingResult(ok, enc, n, h) == [ok |-> ok, enc |-> enc, n |-> n, h |-> h]

\* Mutant of FixedOrFail: on a mismatch the header's length is taken.
FixedOrFail_PicksHeader(h, blen) ==
    IF h.cl # None
    THEN EncodingResult(TRUE, "FixedLength", h.cl, h)
    ELSE EncodingResult(TRUE, "FixedLength", blen, [h EXCEPT !.cl = blen])

\* `match (content_length, body.len())` of write_response and write_request,
\* entered with at least one of the two lengths known.
FixedOrFail(h, blen) ==
    IF h.cl # None /\ blen # None
    THEN IF h.cl # blen
         THEN EncodingResult(FALSE, "None", None, h)
         ELSE EncodingResult(TRUE, "FixedLength", h.cl, h)
    ELSE IF h.cl # None
         THEN EncodingResult(TRUE, "FixedLength", h.cl, h)
         ELSE EncodingResult(TRUE, "FixedLength", blen, [h EXCEPT !.cl = blen])

\* Mutant of ResponseEncoding: an unknown body length is sent chunked on
\* HTTP/1.1 whether or not Connection: close is set.
ResponseEncoding_IgnoresClose(version, h, blen) ==
    IF h.te = "chunked" /\ version = "HTTP/1.1"
    THEN EncodingResult(TRUE, "Chunked", None, h)
    ELSE IF h.cl # None \/ blen # None
    THEN FixedOrFail(h, blen)
    ELSE IF version = "HTTP/1.1"
    THEN EncodingResult(TRUE, "Chunked", None, [h EXCEPT !.te = "chunked"])
    ELSE EncodingResult(TRUE, "CloseDelimited", None, [h EXCEPT !.conn = {"close"}])

\* Mutant of ResponseEncoding: the Transfer-Encoding header of an HTTP/1.0
\* response is left in place.
ResponseEncoding_KeepsTE(version, h, blen) ==
    IF h.te = "chunked" /\ version = "HTTP/1.1"
    THEN EncodingResult(TRUE, "Chunked", None, h)
    ELSE IF h.cl # None \/ blen # None
    THEN FixedOrFail(h, blen)
    ELSE IF blen = None /\ "close" \notin h.conn /\ version = "HTTP/1.1"
    THEN EncodingResult(TRUE, "Chunked", None, [h EXCEPT !.te = "chunked"])
    ELSE EncodingResult(TRUE, "CloseDelimited", None, [h EXCEPT !.conn = {"close"}])

\* write_response, `let encoding = ...` and the HTTP/1.0 header removal.
ResponseEncoding(version, h, blen) ==
    LET has_chunked_encoding == h.te = "chunked"
        has_connection_close == "close" \in h.conn
        dec ==
          IF has_chunked_encoding /\ version = "HTTP/1.1"
          THEN EncodingResult(TRUE, "Chunked", None, h)
          ELSE IF h.cl # None \/ blen # None
          THEN FixedOrFail(h, blen)
          ELSE IF blen = None /\ ~has_connection_close /\ version = "HTTP/1.1"
          THEN EncodingResult(TRUE, "Chunked", None, [h EXCEPT !.te = "chunked"])
          ELSE EncodingResult(TRUE, "CloseDelimited", None,
                 IF has_connection_close THEN h ELSE [h EXCEPT !.conn = {"close"}])
    IN  IF dec.ok /\ version = "HTTP/1.0" /\ has_chunked_encoding
        THEN [dec EXCEPT !.h.te = "none"]
        ELSE dec

\* The body part of a write: [ok, out]. FixedLength below SmallBody writes
\* body.into_bytes(); FixedLength from SmallBody on and CloseDelimited copy
\* body.into_reader(); Chunked writes every Data chunk, then "0 CRLF", the
\* buffered trailers and the final CRLF.
WriteBody(enc, n, body) ==
    CASE enc = "FixedLength" /\ n < SmallBody ->
            LET r == IntoBytes(body)
            IN  [ok |-> r.ok, out |-> [NoBodyOut EXCEPT !.bytes = r.n]]
      [] enc = "Chunked" ->
            LET c == IntoChunks(body)
            IN  [ok |-> TRUE,
                 out |-> [bytes |-> SumSeq(c.data), chunks |-> c.data,
                          term |-> TRUE, trailers |-> c.trailers]]
      [] OTHER ->
            [ok |-> TRUE, out |-> [NoBodyOut EXCEPT !.bytes = ReaderBytes(body)]]

\* Mutant of ResponseOutcome: only the framing decides between Close and
\* KeepAlive; the Connection header is not looked at.
ResponseOutcome_FramingOnly(upgrade, enc, h) ==
    IF upgrade THEN "Upgrade"
    ELSE IF enc = "CloseDelimited" THEN "Close"
    ELSE "KeepAlive"

\* write_response, `let outcome = ...`
ResponseOutcome(upgrade, enc, h) ==
    IF upgrade THEN "Upgrade"
    ELSE IF enc = "CloseDelimited" \/ "close" \in h.conn THEN "Close"
    ELSE "KeepAlive"

NoHead == [version |-> "-", status |-> 0, h |-> Headers("none", None, {})]

WriteResult(ok, head, enc, n, out, outcome) ==
    [ok |-> ok, head |-> head, enc |-> enc, n |-> n, out |-> out,
     outcome |-> outcome]

\* write_response(res, stream, write_body): io::Result<Outcome> and the
\* bytes put on the stream. res: [version, status, h, upgrade, body].
WriteResponse(res, write_body) ==
    LET e == ResponseEncoding(res.version, res.h, BodyLen(res.body))
        head == [version |-> res.version, status |-> res.status, h |-> e.h]
        b == IF write_body THEN WriteBody(e.enc, e.n, res.body)
             ELSE [ok |-> TRUE, out |-> NoBodyOut]
    IN  IF ~e.ok THEN WriteResult(FALSE, NoHead, "None", None, NoBodyOut, "None")
        ELSE IF ~b.ok THEN WriteResult(FALSE, head, e.enc, e.n, b.out, "None")
        ELSE WriteResult(TRUE, head, e.enc, e.n, b.out,
                         ResponseOutcome(res.upgrade, e.enc, e.h))

\* Mutant of RequestEncoding: a request of unknown body length that cannot
\* be sent chunked is sent close-delimited, as write_response does.
RequestEncoding_CloseDelimited(version, method, h, blen) ==
    IF h.te = "chunked" /\ version = "HTTP/1.1"
    THEN EncodingResult(TRUE, "Chunked", None, h)
    ELSE IF h.cl # None \/ blen # None
    THEN FixedOrFail(h, blen)
    ELSE IF blen = None /\ method # "GET" /\ method # "HEAD" /\ version = "HTTP/1.1"
    THEN EncodingResult(TRUE, "Chunked", None, [h EXCEPT !.te = "chunked"])
    ELSE EncodingResult(TRUE, "CloseDelimited", None, [h EXCEPT !.conn = {"close"}])

\* write_request, `let encoding = ...`
RequestEncoding(version, method, h, blen) ==
    LET has_chunked_encoding == h.te = "chunked"
    IN  IF has_chunked_encoding /\ version = "HTTP/1.1"
        THEN EncodingResult(TRUE, "Chunked", None, h)
        ELSE IF h.cl # None \/ blen # None
        THEN FixedOrFail(h, blen)
        ELSE IF blen = None /\ method # "GET" /\ method # "HEAD" /\ version = "HTTP/1.1"
        THEN EncodingResult(TRUE, "Chunked", None, [h EXCEPT !.te = "chunked"])
        ELSE EncodingResult(FALSE, "None", None, h)

\* Mutant of WriteRequest: the start line and the headers are written
\* before the framing decision is checked.
WriteRequest_HeadThenFail(rq) ==
    LET e == RequestEncoding(rq.version, rq.method, rq.h, BodyLen(rq.body))
        head == [version |-> rq.version, status |-> 0, h |-> e.h]
        b == WriteBody(e.enc, e.n, rq.body)
    IN  IF ~e.ok \/ rq.version \notin {"HTTP/1.0", "HTTP/1.1"}
        THEN WriteResult(FALSE, head, "None", None, NoBodyOut, "None")
        ELSE IF ~b.ok THEN WriteResult(FALSE, head, e.enc, e.n, b.out, "None")
        ELSE WriteResult(TRUE, head, e.enc, e.n, b.out, "None")

\* write_request(req, stream): io::Result<()> and the bytes put on the
\* stream. rq: [version, method, h, body]. A version other than HTTP/1.0
\* and HTTP/1.1 fails after the framing decision, before anything is
\* written; the chunked arm takes the chunks of into_chunks as they come.
WriteRequest(rq) ==
    LET e == RequestEncoding(rq.version, rq.method, rq.h, BodyLen(rq.body))
        head == [version |-> rq.version, status |-> 0, h |-> e.h]
        b == WriteBody(e.enc, e.n, rq.body)
    IN  IF ~e.ok \/ rq.version \notin {"HTTP/1.0", "HTTP/1.1"}
        THEN WriteResult(FALSE, NoHead, "None", None, NoBodyOut, "None")
        ELSE IF ~b.ok THEN WriteResult(FALSE, head, e.enc, e.n, b.out, "None")
        ELSE WriteResult(TRUE, head, e.enc, e.n, b.out, "None")

(***************************************************************************)
(* SpecWR: the writers applied to every bounded message                    *)
(***************************************************************************)
Versions == {"HTTP/1.0", "HTTP/1.1", "HTTP/2.0"}
TEs == {"none", "chunked", "other"}
ConnTokens == {"close", "keep-alive"}

\* Iterator items: from_iter yields Data and Trailers; a channel may end
\* with the Err of BodyChannel::abort, which consumes the sender.
OkItems == {DataItem(3), DataItem(SmallBody), TrailersItem}

ItemSeqs ==
    UNION {
      {s \in [1..k -> OkItems \cup {ErrItem}] :
          \A i \in 1..k : s[i].t = "Err" => i = k}
      : k \in 0..MaxItems}

Bodies ==
    {EmptyBody}
      \cup {BufferedBody(n) : n \in Lens}
      \cup {IterBody(s) : s \in ItemSeqs}
      \cup {ReaderBody(a, l) : a \in Lens, l \in Lens \cup {None}}

HeaderSets == {Headers(te, cl, conn) :
                 te \in TEs, cl \in Lens \cup {None}, conn \in SUBSET ConnTokens}

Message(msg, version, method, h, upgrade, write_body, body) ==
    [msg |-> msg, version |-> version, status |-> 200, method |-> method,
     h |-> h, upgrade |-> upgrade, write_body |-> write_body, body |-> body]

\* The methods of outgoing requests: those write_request tests for, and one
\* other.
WriteMethods == {"GET", "HEAD", "POST"}

ResponseMessages ==
    {Message("response", v, "-", h, u, w, b) :
        v \in Versions, h \in HeaderSets, u \in BOOLEAN, w \in BOOLEAN, b \in Bodies}

RequestMessages ==
    {Message("request", v, m, Headers(te, cl, {}), FALSE, TRUE, b) :
        v \in Versions, m \in WriteMethods, te \in TEs,
        cl \in Lens \cup {None}, b \in Bodies}

NoResult == WriteResult(FALSE, NoHead, "None", None, NoBodyOut, "None")

(***************************************************************************)
(* The connection: what the client sent, and the requests parsed off it    *)
(***************************************************************************)
\* Body bytes travel in blocks of Unit bytes: one block is a small body
\* (below SmallBody, read eagerly by the parser), two are a streamed one.
Unit == SmallBody \div 2
HeadBytes == Unit \div 8

\* A block of the byte stream. k: "head" (a header block up to its blank
\* line, with the framing its headers declare: f = "none" | "cl" with
\* Content-Length n | "chunked"), "body" (Unit bytes of a Content-Length
\* body), "chunk" (a chunk of Unit bytes with its size line and CRLF),
\* "zero" (the "0 CRLF" line), "end" (the CRLF closing a chunked body),
\* "part" (a header block cut short by EOF, inside the request line,
\* f = "line", or after it, f = "headers").
Block(r, k, f, n) == [r |-> r, k |-> k, f |-> f, n |-> n]

Framings == {"none", "small", "large", "chunked"}

\* The bytes of request number r with framing fr, as a client writes them.
RequestWire(r, fr) ==
    CASE fr = "none" -> <<Block(r, "head", "none", 0)>>
      [] fr = "small" -> <<Block(r, "head", "cl", Unit), Block(r, "body", "-", Unit)>>
      [] fr = "large" -> <<Block(r, "head", "cl", 2 * Unit),
                           Block(r, "body", "-", Unit), Block(r, "body", "-", Unit)>>
      [] fr = "chunked" -> <<Block(r, "head", "chunked", 0), Block(r, "chunk", "-", Unit),
                             Block(r, "zero", "-", 0), Block(r, "end", "-", 0)>>

BlockBytes(b) == IF b.k = "head" THEN HeadBytes ELSE IF b.k \in {"body", "chunk"} THEN b.n ELSE 2

RECURSIVE BytesFrom(_, _)
\* The bytes of w from block i on.
BytesFrom(w, i) == IF i > Len(w) THEN 0 ELSE BlockBytes(w[i]) + BytesFrom(w, i + 1)

\* w without its first n blocks.
DropBlocks(w, n) == SubSeq(w, n + 1, Len(w))

NoReq == [r |-> 0, version |-> "-", conn |-> {}, method |-> "-", expect |-> FALSE,
          body |-> EmptyBody]

NoLast == [valid |-> FALSE, via |-> "-", version |-> "-", conn |-> {}, method |-> "-",
           status |-> 0, upgrade |-> FALSE, ok |-> FALSE, enc |-> "None",
           resClose |-> FALSE, outcome |-> "None", write_body |-> FALSE, bodyBytes |-> 0,
           dropped |-> FALSE]

\* The connection before it is accepted.
IdleCN ==
    /\ wire = <<>>
    /\ closed = FALSE
    /\ sent = 0
    /\ owed = <<>>
    /\ pc = "off"
    /\ held = "-"
    /\ req = NoReq
    /\ resps = <<>>
    /\ parseAt = "-"
    /\ stolen = FALSE
    /\ last = NoLast

(***************************************************************************)
(* request.rs / response.rs: the body a parsed message gets, read from the *)
(* bytes that follow its header block                                      *)
(***************************************************************************)
\* The stream after the header block, as runs of bytes and whole lines. A
\* run of payload bytes carries an id, so that what a body delivers can be
\* told from what follows it. Lines are what read_until(b'\n') returns in
\* one call; a "cut" line is the bytes before EOF holding no newline.
Bytes(id, n) == [k |-> "data", id |-> id, n |-> n, ext |-> FALSE]
SizeLine(n, ext) == [k |-> "size", id |-> 0, n |-> n, ext |-> ext]
CrLf == [k |-> "crlf", id |-> 0, n |-> 0, ext |-> FALSE]
BadLine == [k |-> "bad", id |-> 0, n |-> 0, ext |-> FALSE]
CutLine == [k |-> "cut", id |-> 0, n |-> 0, ext |-> FALSE]
TrailerLine(id) == [k |-> "trailer", id |-> id, n |-> 0, ext |-> FALSE]

RECURSIVE ByteCount(_)
\* The bytes a read can obtain before a line or EOF.
ByteCount(s) ==
    IF s = <<>> \/ Head(s).k # "data" THEN 0
    ELSE Head(s).n + ByteCount(Tail(s))

RECURSIVE TakeBytes(_, _)
\* The first n bytes of the stream (Read::take(n) read to its end,
\* read_exact on a buffer of n bytes).
TakeBytes(s, n) ==
    IF n = 0 \/ s = <<>> \/ Head(s).k # "data" THEN <<>>
    ELSE IF Head(s).n <= n
         THEN <<Head(s)>> \o TakeBytes(Tail(s), n - Head(s).n)
         ELSE <<Bytes(Head(s).id, n)>>

RECURSIVE SkipBytes(_, _)
\* The stream after n bytes have been read from it.
SkipBytes(s, n) ==
    IF n = 0 \/ s = <<>> \/ Head(s).k # "data" THEN s
    ELSE IF Head(s).n <= n
         THEN SkipBytes(Tail(s), n - Head(s).n)
         ELSE <<Bytes(Head(s).id, Head(s).n - n)>> \o Tail(s)

\* httparse::parse_chunk_size on one line: hex digits, optionally followed
\* by ';' and an extension that is skipped, then CRLF. A bare CRLF parses
\* as size 0; a line without its newline is Partial.
ParseChunkSize_NoExtensions(line) ==
    CASE line.k = "size" /\ ~line.ext -> [st |-> "Complete", size |-> line.n]
      [] line.k = "crlf" -> [st |-> "Complete", size |-> 0]
      [] line.k = "cut" -> [st |-> "Partial", size |-> 0]
      [] OTHER -> [st |-> "Err", size |-> 0]

ParseChunkSize(line) ==
    CASE line.k = "size" -> [st |-> "Complete", size |-> line.n]
      [] line.k = "crlf" -> [st |-> "Complete", size |-> 0]
      [] line.k = "cut" -> [st |-> "Partial", size |-> 0]
      [] OTHER -> [st |-> "Err", size |-> 0]

NextChunk(some, chunk, rest) == [some |-> some, chunk |-> chunk, rest |-> rest]

\* ChunkedReader::next: Some(chunk) or None, and the stream it leaves.
\* Size 0 returns None with the final CRLF unread; a read_exact that meets
\* EOF and a size line that does not parse return None as well (.ok()?,
\* Err(_) => return None). After a chunk one more line is read and dropped.
ChunkedReaderNext(s) ==
    IF s = <<>> THEN NextChunk(FALSE, <<>>, <<>>)
    ELSE LET st == ParseChunkSize(Head(s))
             after == SkipBytes(Tail(s), st.size)
         IN  CASE st.st = "Partial" -> NextChunk(FALSE, <<>>, <<>>)
               [] st.st = "Err" -> NextChunk(FALSE, <<>>, Tail(s))
               [] st.size = 0 -> NextChunk(FALSE, <<>>, Tail(s))
               [] ByteCount(Tail(s)) < st.size ->
                     NextChunk(FALSE, <<>>, SkipBytes(Tail(s), ByteCount(Tail(s))))
               [] OTHER ->
                     NextChunk(TRUE, TakeBytes(Tail(s), st.size),
                               IF after = <<>> THEN <<>> ELSE Tail(after))

RECURSIVE ChunkedReaderRun(_)
\* The iterator run until its first None: the chunks in order and the
\* stream left behind.
ChunkedReaderRun(s) ==
    LET nx == ChunkedReaderNext(s)
    IN  IF ~nx.some THEN [chunks |-> <<>>, rest |-> nx.rest]
        ELSE LET more == ChunkedReaderRun(nx.rest)
             IN  [chunks |-> <<nx.chunk>> \o more.chunks, rest |-> more.rest]

RECURSIVE Concat(_)
Concat(chunks) == IF chunks = <<>> THEN <<>> ELSE Head(chunks) \o Concat(Tail(chunks))

\* A body made by the parser: the BodyInner arm, and for Buffered the bytes
\* it holds. Iter is Body::from_iter(ChunkedReader(stream)); Reader reads
\* the stream itself.
Parsed(res, body, bytes, rest) ==
    [res |-> res, body |-> body, bytes |-> bytes, rest |-> rest]

\* parse_request / parse_response after the head: Content-Length is looked
\* at before Transfer-Encoding.
BodyFromHeaders_LengthFirst(te, cl, s) ==
    IF cl # None THEN
        IF cl < SmallBody THEN
            IF ByteCount(s) < cl THEN Parsed("Io", EmptyBody, <<>>, <<>>)
            ELSE Parsed("Ok", BufferedBody(cl), TakeBytes(s, cl), SkipBytes(s, cl))
        ELSE Parsed("Ok", ReaderBody(ByteCount(s), cl), <<>>, s)
    ELSE IF te # "none" THEN
        IF te # "chunked" THEN Parsed("InvalidTransferEncoding", EmptyBody, <<>>, s)
        ELSE Parsed("Ok", IterBody(<<>>), <<>>, s)
    ELSE Parsed("Ok", EmptyBody, <<>>, s)

\* Mutant of BodyFromHeaders: a Content-Length body is read with read_exact
\* whatever its length.
BodyFromHeaders_NoThreshold(te, cl, s) ==
    IF te # "none" THEN
        IF te # "chunked" THEN Parsed("InvalidTransferEncoding", EmptyBody, <<>>, s)
        ELSE Parsed("Ok", IterBody(<<>>), <<>>, s)
    ELSE IF cl # None THEN
        IF ByteCount(s) < cl THEN Parsed("Io", EmptyBody, <<>>, <<>>)
        ELSE Parsed("Ok", BufferedBody(cl), TakeBytes(s, cl), SkipBytes(s, cl))
    ELSE Parsed("Ok", EmptyBody, <<>>, s)

\* parse_request / parse_response after the head: the body chosen from the
\* typed headers, and the stream left for it. A small Content-Length body
\* is read here with read_exact, which fails at EOF.
BodyFromHeaders(te, cl, s) ==
    IF te # "none" THEN
        IF te # "chunked" THEN Parsed("InvalidTransferEncoding", EmptyBody, <<>>, s)
        ELSE Parsed("Ok", IterBody(<<>>), <<>>, s)
    ELSE IF cl # None THEN
        IF cl < SmallBody THEN
            IF ByteCount(s) < cl THEN Parsed("Io", EmptyBody, <<>>, <<>>)
            ELSE Parsed("Ok", BufferedBody(cl), TakeBytes(s, cl), SkipBytes(s, cl))
        ELSE Parsed("Ok", ReaderBody(ByteCount(s), cl), <<>>, s)
    ELSE Parsed("Ok", EmptyBody, <<>>, s)

\* The ways a parsed body is used up.
BodyViews == {"into_bytes", "into_reader", "into_chunks", "drop"}

Consumed(out, rest) == [out |-> out, rest |-> rest]

\* A parsed body used up through one view: the bytes it delivers and the
\* stream it leaves. Drop drains only a Reader body; into_chunks reads a
\* Reader body with ReaderChunks, the other views with take(len).
ConsumeBody(p, view) ==
    CASE p.body.k = "Empty" -> Consumed(<<>>, p.rest)
      [] p.body.k = "Buffered" ->
            Consumed(IF view = "drop" THEN <<>> ELSE p.bytes, p.rest)
      [] p.body.k = "Iter" ->
            IF view = "drop" THEN Consumed(<<>>, p.rest)
            ELSE Consumed(Concat(ChunkedReaderRun(p.rest).chunks),
                          ChunkedReaderRun(p.rest).rest)
      [] p.body.k = "Reader" ->
            LET n == IF view = "into_chunks"
                     THEN SumSeq(ReaderChunks(ByteCount(p.rest), p.body.len))
                     ELSE Min(p.body.len, ByteCount(p.rest))
            IN  Consumed(IF view = "drop" THEN <<>> ELSE TakeBytes(p.rest, n),
                         SkipBytes(p.rest, n))

NoInput == [te |-> "none", cl |-> None, entries |-> <<>>, items |-> <<>>, stream |-> <<>>,
            view |-> "drop"]
NoParsed == [res |-> "-", body |-> EmptyBody, bytes |-> <<>>, rest |-> <<>>, out |-> <<>>]

\* The parser before any call.
IdlePB ==
    /\ pbIn = NoInput
    /\ pbOut = NoParsed
    /\ pbPc = "off"

(***************************************************************************)
(* body.rs: one body seen through each of its views                        *)
(***************************************************************************)
\* What a view run to its end gave: whether it ended without an error, the
\* bytes it delivered, the bytes it took from the reader behind the body,
\* and for into_chunks the items it yielded.
ViewResult(ok, n, eaten, items) ==
    [done |-> TRUE, ok |-> ok, n |-> n, eaten |-> eaten, items |-> items]

NotRun == [done |-> FALSE, ok |-> FALSE, n |-> 0, eaten |-> 0, items |-> <<>>]

NoViews == [on |-> FALSE, bytes |-> NotRun, reader |-> NotRun, chunks |-> NotRun,
            written |-> NotRun, head |-> None]

\* The views before any body is made.
IdleBD ==
    /\ bdIn = EmptyBody
    /\ bdOut = NoViews

(***************************************************************************)
(* server.rs: Server::serve, make_service, serve_single_thread             *)
(***************************************************************************)
\* A job: the connection and the handler moved into the closure given to
\* thread_pool.execute, or taken by the inline call of serve.
Job(c, h) == [conn |-> c, handler |-> h]

\* Where a connection is: not yet yielded by the iterator ("incoming"), in
\* the pool's queue, in its connection loop, past it, or dropped by the
\* acceptor; how often the hook was called with it; its requests handled.
ConnState(st, hooks, handled) == [st |-> st, hooks |-> hooks, handled |-> handled]

\* The server before a Server method is called.
IdleSV ==
    /\ svMode = "off"
    /\ svIter = 0
    /\ svQueue = <<>>
    /\ svRunning = {}
    /\ svConn = <<>>
    /\ svCalls = {}
    /\ svMade = 0
    /\ svFailed = {}
    /\ svRet = "none"

\* The client before any send.
IdleCL ==
    /\ clRq = <<>>
    /\ clSock = <<>>
    /\ clBuf = <<>>
    /\ clRes = <<>>
    /\ clConn = "off"

\* The read queue before ReadQueue::new / the writers before any call.
IdleRQ ==
    /\ rqHead = FALSE
    /\ rqAlive = FALSE
    /\ qr = <<>>
    /\ chan = <<>>
    /\ rqRead = <<>>
    /\ rqGot = <<>>

IdleWR ==
    /\ wrIn = Message("none", "-", "-", Headers("none", None, {}), FALSE, FALSE, EmptyBody)
    /\ wrOut = NoResult
    /\ wrPc = "off"

InitWR ==
    /\ wrIn \in ResponseMessages \cup RequestMessages
    /\ wrOut = NoResult
    /\ wrPc = "ready"
    /\ IdleRQ
    /\ IdleCN
    /\ IdlePB
    /\ IdleBD
    /\ IdleSV
    /\ IdleCL

DoWriteResponse ==
    /\ wrPc = "ready"
    /\ wrIn.msg = "response"
    /\ wrOut' = WriteResponse(wrIn, wrIn.write_body)
    /\ wrPc' = "done"
    /\ UNCHANGED <<wrIn, rqVars, cnVars, pbVars, bdVars, svVars, clVars>>

DoWriteRequest ==
    /\ wrPc = "ready"
    /\ wrIn.msg = "request"
    /\ wrOut' = WriteRequest(wrIn)
    /\ wrPc' = "done"
    /\ UNCHANGED <<wrIn, rqVars, cnVars, pbVars, bdVars, svVars, clVars>>

NextWR == DoWriteResponse \/ DoWriteRequest

SpecWR == InitWR /\ [][NextWR]_vars

WrittenResponse == wrPc = "done" /\ wrIn.msg = "response"
WrittenRequest == wrPc = "done" /\ wrIn.msg = "request"

(***************************************************************************)
(* Claims about the writers (checked under SpecWR)                         *)
(***************************************************************************)
\* The framing decision succeeded: a head was put on the stream.
FramingChosen == wrOut.enc # "None"

\* C6: write_response chooses the framing as a function of (version,
\* Transfer-Encoding: chunked present, Content-Length header, body.len(),
\* Connection: close present): Chunked if chunked TE is present and the
\* version is HTTP/1.1; else FixedLength(n) if a Content-Length n or a known
\* body length n exists, and the written head carries Content-Length n;
\* else Chunked with Transfer-Encoding: chunked in the written head if the
\* version is HTTP/1.1 and Connection: close is not set; else CloseDelimited
\* with Connection: close in the written head.
C6_Framing ==
    (WrittenResponse /\ FramingChosen) =>
      LET h == wrIn.h
          blen == BodyLen(wrIn.body)
          out == wrOut.head.h
      IN  IF h.te = "chunked" /\ wrIn.version = "HTTP/1.1"
          THEN wrOut.enc = "Chunked"
          ELSE IF h.cl # None \/ blen # None
          THEN /\ wrOut.enc = "FixedLength"
               /\ wrOut.n = (IF h.cl # None THEN h.cl ELSE blen)
               /\ out.cl = wrOut.n
          ELSE IF wrIn.version = "HTTP/1.1" /\ "close" \notin h.conn
          THEN wrOut.enc = "Chunked" /\ out.te = "chunked"
          ELSE wrOut.enc = "CloseDelimited" /\ "close" \in out.conn

\* C6 witness: a response of unknown body length with Connection: close
\* was written close-delimited, and one without it was written chunked.
C6_Witness ==
    /\ WrittenResponse
    /\ wrIn.version = "HTTP/1.1"
    /\ wrIn.h = Headers("none", None, {"close"})
    /\ wrIn.body.k = "Iter"
    /\ wrOut.enc = "CloseDelimited"

\* C7: when the message carries Content-Length n and its body has a known
\* length m # n, and chunked framing was not selected, write_response and
\* write_request fail.
C7_LengthMismatchFails ==
    (/\ wrPc = "done"
     /\ wrIn.h.cl # None
     /\ BodyLen(wrIn.body) # None
     /\ wrIn.h.cl # BodyLen(wrIn.body)
     /\ ~(wrIn.h.te = "chunked" /\ wrIn.version = "HTTP/1.1"))
      => ~wrOut.ok

\* C7 witness: a request with Content-Length 3 and an empty buffered body
\* was handed to write_request, which failed.
C7_Witness ==
    /\ WrittenRequest
    /\ wrIn.h.cl = 3
    /\ wrIn.body = BufferedBody(0)
    /\ wrIn.h.te = "none"
    /\ ~wrOut.ok

\* C8: if a response declares Content-Length n and its body supplies a
\* number of bytes other than n, write_response fails or returns Close: it
\* never returns KeepAlive after writing a body of another size than n.
C8_NoLengthLyingKeepAlive ==
    (/\ WrittenResponse
     /\ wrIn.write_body
     /\ wrOut.ok
     /\ wrOut.enc = "FixedLength"
     /\ wrOut.out.bytes # wrOut.n)
      => wrOut.outcome # "KeepAlive"

\* C9: the Outcome write_response returns is Upgrade whenever the response
\* has an upgrade handler attached; otherwise Close if the framing was
\* CloseDelimited or the written headers contain Connection: close;
\* otherwise KeepAlive.
C9_Outcome ==
    (WrittenResponse /\ wrOut.ok) =>
      wrOut.outcome =
        (IF wrIn.upgrade THEN "Upgrade"
         ELSE IF wrOut.enc = "CloseDelimited" \/ "close" \in wrOut.head.h.conn
              THEN "Close"
         ELSE "KeepAlive")

\* C9 witness: a response with an upgrade handler and Connection: close,
\* written close-delimited, returned Upgrade.
C9_Witness ==
    /\ WrittenResponse
    /\ wrOut.ok
    /\ wrIn.upgrade
    /\ "close" \in wrIn.h.conn
    /\ wrOut.enc = "CloseDelimited"
    /\ wrOut.outcome = "Upgrade"

(***************************************************************************)
(* read_queue.rs: the trampoline, one thread per QueuedReader              *)
(***************************************************************************)
Readers == 1..Len(qr)

\* Mutant of EnqueueInner: every QueuedReader is handed the reader at once.
EnqueueInner_AlwaysCurrent(head) == "Current"

\* ReadQueue::enqueue, the match on mem::replace(self, Next(rx)):
\* Head(reader) gives Current(reader), Next(previous) gives Waiting(previous).
EnqueueInner(head) == IF head THEN "Current" ELSE "Waiting"

\* rx.recv() of QueuedReader i returns: its predecessor has sent the reader.
\* (It blocks until then; the sender is dropped only after Drop has sent.)
RecvReady(i) == i > 1 /\ chan[i - 1] = 1

\* ReadQueue::new(reader)
InitRQ ==
    /\ rqHead = TRUE
    /\ rqAlive = TRUE
    /\ qr = <<>>
    /\ chan = <<>>
    /\ rqRead = <<>>
    /\ rqGot = <<>>
    /\ IdleWR
    /\ IdleCN
    /\ IdlePB
    /\ IdleBD
    /\ IdleSV
    /\ IdleCL

\* ReadQueue::enqueue
Enqueue ==
    /\ rqAlive
    /\ Len(qr) < MaxReaders
    /\ qr' = Append(qr, EnqueueInner(rqHead))
    /\ chan' = Append(chan, 0)
    /\ rqRead' = Append(rqRead, 0)
    /\ rqHead' = FALSE
    /\ rqGot' = IF EnqueueInner(rqHead) = "Current" THEN Append(rqGot, Len(qr) + 1) ELSE rqGot
    /\ UNCHANGED <<rqAlive, wrVars, cnVars, pbVars, bdVars, svVars, clVars>>

\* Read::read / BufRead::fill_buf + consume on QueuedReader i holding the
\* reader.
ReadCurrent(i) ==
    /\ qr[i] = "Current"
    /\ rqRead[i] < MaxReads
    /\ rqRead' = [rqRead EXCEPT ![i] = @ + 1]
    /\ UNCHANGED <<rqHead, rqAlive, qr, chan, rqGot, wrVars, cnVars, pbVars, bdVars, svVars, clVars>>

\* Read::read / BufRead::fill_buf + consume on a waiting QueuedReader:
\* rx.recv(), then the read, then self.reader = Current(reader).
ReadWaiting(i) ==
    /\ qr[i] = "Waiting"
    /\ RecvReady(i)
    /\ rqRead[i] < MaxReads
    /\ chan' = [chan EXCEPT ![i - 1] = 0]
    /\ qr' = [qr EXCEPT ![i] = "Current"]
    /\ rqRead' = [rqRead EXCEPT ![i] = @ + 1]
    /\ rqGot' = Append(rqGot, i)
    /\ UNCHANGED <<rqHead, rqAlive, wrVars, cnVars, pbVars, bdVars, svVars, clVars>>

\* self.next.send(reader): the reader goes to the channel; with the
\* receiver gone (the last QueuedReader of a dropped ReadQueue) the send
\* fails and the reader is dropped.
Sent(i) == IF i = Len(qr) /\ ~rqAlive THEN 0 ELSE 1

\* Drop for QueuedReader, Current arm
DropCurrent(i) ==
    /\ qr[i] = "Current"
    /\ qr' = [qr EXCEPT ![i] = "Dropped"]
    /\ chan' = [chan EXCEPT ![i] = Sent(i)]
    /\ UNCHANGED <<rqHead, rqAlive, rqRead, rqGot, wrVars, cnVars, pbVars, bdVars, svVars, clVars>>

\* Mutant of DropWaiting: a waiting QueuedReader is dropped without taking
\* the reader from its predecessor and forwarding it.
DropWaiting_NoForward(i) ==
    /\ qr[i] = "Waiting"
    /\ qr' = [qr EXCEPT ![i] = "Dropped"]
    /\ UNCHANGED <<rqHead, rqAlive, chan, rqRead, rqGot, wrVars, cnVars, pbVars, bdVars, svVars, clVars>>

\* Drop for QueuedReader, Waiting arm: self.next.send(rx.recv().unwrap())
DropWaiting(i) ==
    /\ qr[i] = "Waiting"
    /\ RecvReady(i)
    /\ qr' = [qr EXCEPT ![i] = "Dropped"]
    /\ chan' = [chan EXCEPT ![i - 1] = 0, ![i] = Sent(i)]
    /\ rqGot' = Append(rqGot, i)
    /\ UNCHANGED <<rqHead, rqAlive, rqRead, wrVars, cnVars, pbVars, bdVars, svVars, clVars>>

\* drop(read_queue): Head drops the reader, Next drops the last receiver
\* and whatever it holds.
DropQueue ==
    /\ rqAlive
    /\ rqAlive' = FALSE
    /\ rqHead' = FALSE
    /\ chan' = IF Len(chan) > 0 THEN [chan EXCEPT ![Len(chan)] = 0] ELSE chan
    /\ UNCHANGED <<qr, rqRead, rqGot, wrVars, cnVars, pbVars, bdVars, svVars, clVars>>

NextRQ ==
    \/ Enqueue
    \/ DropQueue
    \/ \E i \in Readers : ReadCurrent(i)
    \/ \E i \in Readers : ReadWaiting(i)
    \/ \E i \in Readers : DropCurrent(i)
    \/ \E i \in Readers : DropWaiting(i)

SpecRQ == InitRQ /\ [][NextRQ]_vars

\* The places the underlying reader is held: the queue head, a QueuedReader,
\* a channel.
Holders == {i \in Readers : qr[i] = "Current"}
InFlight == {i \in Readers : chan[i] = 1}

\* C3: for the QueuedReaders of successive enqueue() calls, at most one
\* holds the underlying reader at any time (and then neither the queue nor
\* a channel holds it), and QueuedReader n+1 has obtained no byte while
\* QueuedReader n is not dropped, whatever the interleaving of the threads.
C3_OneHolderInOrder ==
    /\ Cardinality(Holders) + Cardinality(InFlight) + (IF rqHead THEN 1 ELSE 0) <= 1
    /\ \A i \in Readers : (i > 1 /\ rqRead[i] > 0) => qr[i - 1] = "Dropped"

\* C3 witness: the second QueuedReader has read after the first was dropped
\* and holds the reader while a third one waits.
C3_Witness ==
    /\ Len(qr) = 3
    /\ qr[1] = "Dropped"
    /\ qr[2] = "Current"
    /\ rqRead[2] > 0
    /\ qr[3] = "Waiting"

(***************************************************************************)
(* server.rs: serve, the connection loop                                   *)
(***************************************************************************)
ReqVersions == {"HTTP/1.0", "HTTP/1.1"}
ReqConns == {{}, {"close"}, {"keep-alive"}}
Methods == {"GET", "HEAD", "CONNECT"}

\* The request heads of the model, with and without Expect: 100-continue:
\* for GET every version and Connection token that changes demands_close;
\* HEAD and CONNECT as HTTP/1.1 requests without a Connection header.
ReqHeads ==
    {a \in [version : ReqVersions, conn : ReqConns, method : Methods, expect : BOOLEAN] :
        /\ a.method # "GET" => (a.version = "HTTP/1.1" /\ a.conn = {})
        /\ a.conn = {"keep-alive"} => a.version = "HTTP/1.0"
        /\ a.conn = {"close"} => a.version = "HTTP/1.1"}

ParseResult(res, head, eat, at) == [res |-> res, head |-> head, eat |-> eat, at |-> at]

NoBlock == Block(0, "-", "-", 0)

\* parse_request, the header block: read_until lines up to a blank line,
\* then httparse. The set of results the unread bytes allow (empty: the
\* read blocks), each with the blocks it consumes. Starting at a header
\* block, it is that request. Starting at the CRLF that closes a chunked
\* body, httparse skips the empty line and parses the request that
\* follows; with EOF after it the buffer is not empty and the parse fails.
\* Starting at the "0" line of a chunked body the parse fails. A header
\* block cut by EOF: httparse's Status is not looked at, only method, path
\* and version, so a cut inside the request line is IncompleteRequest and
\* a cut after it is a request with the header lines complete so far.
\* Starting
\* inside body bytes, which are the client's to choose, the lines either do
\* not parse or are a request of their own (request 0: one the client
\* never sent).
ParseOutcomes ==
    IF wire = <<>>
    THEN IF closed THEN {ParseResult("closed", NoBlock, 0, "eof")} ELSE {}
    ELSE LET b == wire[1]
         IN  CASE b.k = "head" -> {ParseResult("ok", b, 1, "head")}
               [] b.k = "end" ->
                    IF Len(wire) >= 2
                    THEN {ParseResult("ok", wire[2], 2, "end")}
                    ELSE IF closed THEN {ParseResult("err", NoBlock, 1, "end")}
                    ELSE {}
               [] b.k = "zero" -> {ParseResult("err", NoBlock, 2, "zero")}
               [] b.k = "part" ->
                    IF b.f = "line"
                    THEN {ParseResult("err", NoBlock, 1, "part")}
                    ELSE {ParseResult("ok", Block(b.r, "head", "none", 0), 1, "part")}
               [] OTHER ->
                    {ParseResult("err", NoBlock, 1, b.k),
                     ParseResult("ok", Block(0, "head", "none", 0), 1, b.k)}

\* parse_request, `let body = ...`: the body of the request whose header
\* block is h, and the blocks the parser itself consumes for it.
ParsedBody(h) ==
    CASE h.f = "chunked" -> IterBody(<<>>)
      [] h.f = "cl" /\ h.n < SmallBody -> BufferedBody(h.n)
      [] h.f = "cl" -> ReaderBody(h.n, h.n)
      [] OTHER -> EmptyBody

EagerBlocks(h) == IF h.f = "cl" /\ h.n < SmallBody THEN h.n \div Unit ELSE 0

\* The body keeps the QueuedReader (a streamed or chunked body) or the
\* parser drops it on return, which forwards the reader.
HolderAfterParse(body) == IF body.k \in {"Reader", "Iter"} THEN "body" ELSE "reader"

\* serve, `let demands_close = ...`
DemandsClose(version, conn) ==
    IF version = "HTTP/1.0" THEN "keep-alive" \notin conn ELSE "close" \in conn

\* Mutant of ShouldWriteBody: only HEAD suppresses the body.
ShouldWriteBody_HeadOnly(method, status) == method # "HEAD"

\* serve, `let should_write_body = ...`
ShouldWriteBody(method, status) ==
    CASE method = "HEAD" -> FALSE
      [] method = "CONNECT" -> status >= 200 /\ status < 300
      [] OTHER -> TRUE

\* What a handler (or the thread it gave the body to) does with a request
\* body: drop it unread, read part or all of it through into_reader, step
\* through into_chunks, return it as the response body, keep it past the
\* handler's return.
BodyUses(body) ==
    CASE body.k = "Reader" -> {"drop", "reader_part", "reader_all", "chunks", "echo", "defer"}
      [] body.k = "Iter" -> {"drop", "read_all", "chunks_part", "echo", "defer"}
      [] OTHER -> {"drop", "echo"}

\* The blocks of the current request's streamed body.
BodyBlocks == req.body.len \div Unit

\* The blocks up to the "0 CRLF" line of the current chunked body.
ZeroBlocks ==
    LET js == {j \in 1..Len(wire) : wire[j].k = "zero"}
    IN  IF js = {} THEN Len(wire) ELSE CHOOSE j \in js : \A k \in js : j <= k

\* UseBlocks with a Drop for Body that drains nothing.
UseBlocks_DropLeaves(use) ==
    CASE req.body.k = "Reader" /\ use = "reader_all" -> BodyBlocks
      [] req.body.k = "Reader" /\ use = "reader_part" -> 1
      [] req.body.k = "Reader" /\ use = "chunks" ->
            IF BytesFrom(wire, 1) <= ReadBuf THEN Len(wire) ELSE BodyBlocks
      [] req.body.k = "Iter" /\ use = "read_all" -> ZeroBlocks
      [] req.body.k = "Iter" /\ use = "chunks_part" -> 1
      [] OTHER -> 0

\* The blocks a use of the current request's body consumes. Drop for Body
\* drains a Reader body to its declared length and leaves an Iter body
\* where it is; a BodyReader or ChunkIterator that is dropped drains
\* nothing; into_reader takes at most the declared length; ChunkIterator
\* reads up to ReadBuf bytes of whatever the reader has; ChunkedReader
\* stops after the "0 CRLF" line.
UseBlocks(use) ==
    CASE req.body.k = "Reader" /\ use \in {"drop", "reader_all"} -> BodyBlocks
      [] req.body.k = "Reader" /\ use = "reader_part" -> 1
      [] req.body.k = "Reader" /\ use = "chunks" ->
            IF BytesFrom(wire, 1) <= ReadBuf THEN Len(wire) ELSE BodyBlocks
      [] req.body.k = "Iter" /\ use = "read_all" -> ZeroBlocks
      [] req.body.k = "Iter" /\ use = "chunks_part" -> 1
      [] OTHER -> 0

\* The blocks that must have arrived for the use to return: a read on the
\* stream blocks until there are bytes or the peer has closed.
Needs(use) ==
    CASE req.body.k = "Reader" /\ use \in {"drop", "reader_all", "chunks"} -> BodyBlocks
      [] req.body.k = "Reader" /\ use = "reader_part" -> 1
      [] req.body.k = "Iter" /\ use = "read_all" ->
            IF \E j \in 1..Len(wire) : wire[j].k = "zero" THEN 0 ELSE Len(wire) + 1
      [] req.body.k = "Iter" /\ use = "chunks_part" -> 1
      [] OTHER -> 0

CanUse(use) == closed \/ Len(wire) >= Needs(use)

\* The blocks the use takes off the stream (EOF ends every read).
Takes(use) == Min(UseBlocks(use), Len(wire))

\* The use consumed blocks that are not the current request's.
Steals(use) == \E i \in 1..Takes(use) : wire[i].r # req.r

\* The use is Drop for Body on a body that reads the connection stream up
\* to its declared length, nothing of it read before.
DropsReader(use) == use = "drop" /\ req.body.k = "Reader"

\* The request body as a response body: what its source can still supply.
EchoBody ==
    CASE req.body.k = "Reader" -> ReaderBody(BytesFrom(wire, 1), req.body.len)
      [] req.body.k = "Iter" ->
            IterBody([i \in 1..(ZeroBlocks - 1) |-> DataItem(wire[i].n)])
      [] OTHER -> req.body

\* The view write_response takes of an echoed body.
EchoUse(out, write_body) ==
    IF ~write_body \/ out.enc = "None" THEN "drop"
    ELSE IF req.body.k = "Reader"
         THEN (IF out.enc = "Chunked" THEN "chunks" ELSE "reader_all")
    ELSE IF req.body.k = "Iter" THEN "read_all"
    ELSE "drop"

\* The responses the handlers of the model return (the body of an echo is
\* the request's).
Templates ==
    {t \in [status : {200, 404}, te : {"none", "chunked"}, conn : {{}, {"close"}},
             upgrade : BOOLEAN, body : {EmptyBody, IterBody(<<DataItem(3)>>)}] :
        /\ t.upgrade => (t.status = 200 /\ t.te = "none" /\ t.conn = {}
                            /\ t.body = EmptyBody)
        /\ t.status = 404 => (t.te = "none" /\ t.conn = {} /\ t.body # EmptyBody)}

\* serve, from app.call's Ok to write_response: the response as written.
HandlerResponse(t, body) ==
    [version |-> req.version, status |-> t.status,
     h |-> Headers(t.te, None,
                   IF req.version = "HTTP/1.0" /\ "keep-alive" \notin req.conn
                   THEN {"close"} ELSE t.conn),
     upgrade |-> t.upgrade, body |-> body]

\* Response::builder().status(status).body(()) of the Expect branch.
BareResponse(status) ==
    [version |-> "HTTP/1.1", status |-> status, h |-> Headers("none", None, {}),
     upgrade |-> FALSE, body |-> EmptyBody]

Cycle(via, status, upgrade, out, write_body) ==
    [valid |-> TRUE, via |-> via, version |-> req.version, conn |-> req.conn,
     method |-> req.method, status |-> status, upgrade |-> upgrade, ok |-> out.ok,
     enc |-> out.enc, resClose |-> "close" \in out.head.h.conn,
     outcome |-> out.outcome, write_body |-> write_body, bodyBytes |-> out.out.bytes,
     dropped |-> FALSE]

\* A response put on the stream: to request r, "interim" or "final", written
\* by the Expect branch ("should_continue") or after app.call ("call").
Response(r, kind, by) == [r |-> r, kind |-> kind, by |-> by]

\* serve, up to the loop
Init ==
    /\ wire = <<>>
    /\ closed = FALSE
    /\ sent = 0
    /\ owed = <<>>
    /\ pc = "parse"
    /\ held = "reader"
    /\ req = NoReq
    /\ resps = <<>>
    /\ parseAt = "-"
    /\ stolen = FALSE
    /\ last = NoLast
    /\ IdleWR
    /\ IdleRQ
    /\ IdlePB
    /\ IdleBD
    /\ IdleSV
    /\ IdleCL

Running == pc \notin {"off", "done_ok", "done_err"}

\* The client writes its next request without waiting for responses.
ClientSend ==
    /\ Running
    /\ ~closed
    /\ sent < MaxReqs
    /\ owed = <<>>
    /\ sent' = sent + 1
    /\ \E fr \in Framings : wire' = wire \o RequestWire(sent + 1, fr)
    /\ UNCHANGED <<owed, closed, pc, held, req, resps, parseAt, stolen, last, wrVars, rqVars, pbVars, bdVars, svVars, clVars>>

\* The client sends the head of a request with Expect: 100-continue and
\* keeps the body back.
ClientSendHead ==
    /\ Running
    /\ ~closed
    /\ sent < MaxReqs
    /\ owed = <<>>
    /\ sent' = sent + 1
    /\ \E fr \in Framings \ {"none"} :
         /\ wire' = Append(wire, Head(RequestWire(sent + 1, fr)))
         /\ owed' = Tail(RequestWire(sent + 1, fr))
    /\ UNCHANGED <<closed, pc, held, req, resps, parseAt, stolen, last, wrVars, rqVars, pbVars, bdVars, svVars, clVars>>

\* The client sends the beginning of a header block and shuts the stream.
ClientCutsHead ==
    /\ Running
    /\ ~closed
    /\ sent < MaxReqs
    /\ owed = <<>>
    /\ sent' = sent + 1
    /\ closed' = TRUE
    /\ \E f \in {"line", "headers"} : wire' = Append(wire, Block(sent + 1, "part", f, 0))
    /\ UNCHANGED <<owed, pc, held, req, resps, parseAt, stolen, last, wrVars, rqVars, pbVars, bdVars, svVars, clVars>>

\* The client has received 100 Continue for the request and sends the body.
ClientSendBody ==
    /\ ~closed
    /\ owed # <<>>
    /\ \E i \in 1..Len(resps) : resps[i].r = owed[1].r /\ resps[i].kind = "interim"
    /\ wire' = wire \o owed
    /\ owed' = <<>>
    /\ UNCHANGED <<closed, sent, pc, held, req, resps, parseAt, stolen, last,
                   wrVars, rqVars, pbVars, bdVars, svVars, clVars>>

\* The client has received a final response instead of 100 Continue and
\* does not send the body.
ClientKeepsBody ==
    /\ owed # <<>>
    /\ \E i \in 1..Len(resps) : resps[i].r = owed[1].r /\ resps[i].kind = "final"
    /\ ~\E i \in 1..Len(resps) : resps[i].r = owed[1].r /\ resps[i].kind = "interim"
    /\ owed' = <<>>
    /\ UNCHANGED <<wire, closed, sent, pc, held, req, resps, parseAt, stolen, last,
                   wrVars, rqVars, pbVars, bdVars, svVars, clVars>>

ClientClose ==
    /\ Running
    /\ ~closed
    /\ closed' = TRUE
    /\ UNCHANGED <<owed, wire, sent, pc, held, req, resps, parseAt, stolen, last,
                   wrVars, rqVars, pbVars, bdVars, svVars, clVars>>

\* serve: parse_request(reader) and its Err arms, and on Ok the next
\* enqueue and the request's control signals. The read on the pending
\* QueuedReader returns once its predecessor has forwarded the reader. The
\* read_exact of a small body returns once its bytes are there, and fails
\* at EOF.
ParseRequest ==
    /\ pc = "parse"
    /\ held = "reader"
    /\ \E p \in ParseOutcomes :
         /\ parseAt' = p.at
         /\ CASE p.res = "closed" ->
                   /\ pc' = "done_ok"
                   /\ UNCHANGED <<wire, held, req>>
              [] p.res = "err" ->
                   /\ pc' = "done_err"
                   /\ wire' = DropBlocks(wire, p.eat)
                   /\ UNCHANGED <<held, req>>
              [] Len(wire) < p.eat + EagerBlocks(p.head) ->
                   /\ closed
                   /\ pc' = "done_err"
                   /\ wire' = <<>>
                   /\ UNCHANGED <<held, req>>
              [] OTHER ->
                   \E a \in ReqHeads :
                     /\ (owed # <<>> /\ owed[1].r = p.head.r) => a.expect
                     /\ req' = [r |-> p.head.r, version |-> a.version, conn |-> a.conn,
                                method |-> a.method, expect |-> a.expect,
                                body |-> ParsedBody(p.head)]
                     /\ wire' = DropBlocks(wire, p.eat + EagerBlocks(p.head))
                     /\ held' = HolderAfterParse(ParsedBody(p.head))
                     /\ pc' = IF a.expect THEN "should_continue" ELSE "call"
    /\ last' = NoLast
    /\ stolen' = FALSE
    /\ UNCHANGED <<owed, closed, sent, resps, wrVars, rqVars, pbVars, bdVars, svVars, clVars>>

\* serve, expects_continue with should_continue returning 100: the interim
\* response is written and flushed.
ContinueAccepted ==
    /\ pc = "should_continue"
    /\ resps' = Append(resps, Response(req.r, "interim", "should_continue"))
    /\ pc' = "call"
    /\ UNCHANGED <<owed, wire, closed, sent, held, req, parseAt, stolen, last, wrVars, rqVars, pbVars, bdVars, svVars, clVars>>

\* Mutant of ContinueRejected: after the rejecting status the loop falls
\* through to app.call, as it does after 100.
ContinueRejected_ThenCall ==
    /\ pc = "should_continue"
    /\ resps' = Append(resps, Response(req.r, "final", "should_continue"))
    /\ pc' = "call"
    /\ UNCHANGED <<owed, wire, closed, sent, held, req, parseAt, stolen, last, wrVars, rqVars, pbVars, bdVars, svVars, clVars>>

\* serve, expects_continue with another status: the status is written and
\* flushed, and `continue` drops the request and goes back to
\* parse_request.
ContinueRejected ==
    /\ pc = "should_continue"
    /\ \E status \in {417} :
         LET out == WriteResponse(BareResponse(status), TRUE)
         IN  /\ resps' = Append(resps, Response(req.r, "final", "should_continue"))
             /\ last' = [Cycle("reject", status, FALSE, out, TRUE)
                            EXCEPT !.dropped = CanUse("drop") /\ DropsReader("drop")]
    /\ IF CanUse("drop")
       THEN /\ wire' = DropBlocks(wire, Takes("drop"))
            /\ stolen' = Steals("drop")
            /\ req' = NoReq
            /\ held' = "reader"
       ELSE /\ held' = "dropping"
            /\ UNCHANGED <<wire, stolen, req>>
    /\ pc' = "parse"
    /\ UNCHANGED <<owed, closed, sent, parseAt, wrVars, rqVars, pbVars, bdVars, svVars, clVars>>

\* Drop for Body of the rejected request, waiting for the bytes of its
\* declared length: io::copy(stream.take(len), sink) returns.
DrainRejected ==
    /\ held = "dropping"
    /\ CanUse("drop")
    /\ wire' = DropBlocks(wire, Takes("drop"))
    /\ stolen' = Steals("drop")
    /\ req' = NoReq
    /\ held' = "reader"
    /\ last' = [last EXCEPT !.dropped = DropsReader("drop")]
    /\ UNCHANGED <<owed, closed, sent, pc, resps, parseAt, wrVars, rqVars, pbVars, bdVars, svVars, clVars>>

\* Mutant of CallFails: a handler error is answered with a response of the
\* server's own and the loop goes on.
CallFails_Answers ==
    /\ pc = "call"
    /\ resps' = Append(resps, Response(req.r, "final", "call"))
    /\ last' = [NoLast EXCEPT !.via = "call_err"]
    /\ req' = NoReq
    /\ held' = "reader"
    /\ pc' = "parse"
    /\ UNCHANGED <<owed, wire, closed, sent, parseAt, stolen, wrVars, rqVars, pbVars, bdVars, svVars, clVars>>

\* serve: app.call(req) returns Err.
CallFails ==
    /\ pc = "call"
    /\ \E use \in BodyUses(req.body) \ {"echo", "defer"} :
         /\ CanUse(use)
         /\ wire' = DropBlocks(wire, Takes(use))
         /\ stolen' = Steals(use)
    /\ req' = NoReq
    /\ held' = "reader"
    /\ last' = [NoLast EXCEPT !.via = "call_err"]
    /\ pc' = "done_err"
    /\ UNCHANGED <<owed, closed, sent, resps, parseAt, wrVars, rqVars, pbVars, bdVars, svVars, clVars>>

\* serve: app.call(req) returns a response; version, Connection: close for
\* HTTP/1.0 without keep-alive, write_response, and the outcome dispatch.
CallAndRespond ==
    /\ pc = "call"
    /\ \E use \in BodyUses(req.body), t \in Templates :
         LET res == HandlerResponse(t, IF use = "echo" THEN EchoBody ELSE t.body)
             wb == ShouldWriteBody(req.method, t.status)
             out == WriteResponse(res, wb)
             u == IF use = "echo" THEN EchoUse(out, wb) ELSE use
         IN  /\ CanUse(u)
             /\ wire' = DropBlocks(wire, Takes(u))
             /\ stolen' = Steals(u)
             /\ held' = IF use = "defer" THEN "deferred" ELSE "reader"
             /\ req' = IF use = "defer" THEN req ELSE NoReq
             /\ resps' = IF out.enc = "None" THEN resps
                         ELSE Append(resps, Response(req.r, "final", "call"))
             /\ last' = [Cycle("call", t.status, t.upgrade, out, wb)
                            EXCEPT !.dropped = DropsReader(u)]
             /\ pc' = IF ~out.ok THEN "done_err"
                      ELSE CASE out.outcome = "Upgrade" -> "upgrade"
                             [] out.outcome = "Close" -> "done_ok"
                             [] OTHER -> IF DemandsClose(req.version, req.conn)
                                         THEN "done_ok" ELSE "parse"
    /\ UNCHANGED <<owed, closed, sent, parseAt, wrVars, rqVars, pbVars, bdVars, svVars, clVars>>

\* The thread the handler gave the request body to uses it and drops it.
ReleaseBody ==
    /\ held = "deferred"
    /\ \E use \in BodyUses(req.body) \ {"echo", "defer"} :
         /\ CanUse(use)
         /\ wire' = DropBlocks(wire, Takes(use))
         /\ stolen' = Steals(use)
         /\ last' = [last EXCEPT !.dropped = DropsReader(use)]
    /\ req' = NoReq
    /\ held' = "reader"
    /\ UNCHANGED <<owed, closed, sent, pc, resps, parseAt, wrVars, rqVars, pbVars, bdVars, svVars, clVars>>

\* Mutant of Upgrade: the handler is given the connection while the reader
\* and the read queue are still alive.
Upgrade_KeepsQueue ==
    /\ pc = "upgrade"
    /\ held = "reader"
    /\ pc' = "upgraded"
    /\ UNCHANGED <<owed, wire, closed, sent, held, req, resps, parseAt, stolen, last,
                   wrVars, rqVars, pbVars, bdVars, svVars, clVars>>

\* serve, Outcome::Upgrade: drop(reader) (which waits for the reader to be
\* forwarded), drop(read_queue), and the handler is given the connection.
Upgrade ==
    /\ pc = "upgrade"
    /\ held = "reader"
    /\ held' = "gone"
    /\ pc' = "upgraded"
    /\ UNCHANGED <<owed, wire, closed, sent, req, resps, parseAt, stolen, last,
                   wrVars, rqVars, pbVars, bdVars, svVars, clVars>>

\* Mutant of UpgradeReturns: after the upgrade handler the loop goes back to
\* parse_request.
UpgradeReturns_LoopsOn ==
    /\ pc = "upgraded"
    /\ pc' = "parse"
    /\ held' = "reader"
    /\ UNCHANGED <<owed, wire, closed, sent, req, resps, parseAt, stolen, last,
                   wrVars, rqVars, pbVars, bdVars, svVars, clVars>>

\* The upgrade handler returns; serve breaks out of the loop.
UpgradeReturns ==
    /\ pc = "upgraded"
    /\ pc' = "done_ok"
    /\ UNCHANGED <<owed, wire, closed, sent, held, req, resps, parseAt, stolen, last,
                   wrVars, rqVars, pbVars, bdVars, svVars, clVars>>

Next ==
    \/ ClientSend
    \/ ClientClose
    \/ ParseRequest
    \/ ContinueAccepted
    \/ ContinueRejected
    \/ CallFails
    \/ CallAndRespond
    \/ ReleaseBody
    \/ Upgrade
    \/ UpgradeReturns

Spec == Init /\ [][Next]_vars

\* The loop with a client that may also wait for 100 Continue before it
\* sends a body, or stop in the middle of a header block.
NextClient ==
    \/ Next
    \/ ClientSendHead
    \/ ClientSendBody
    \/ ClientKeepsBody
    \/ ClientCutsHead
    \/ DrainRejected

SpecClient == Init /\ [][NextClient]_vars

\* The writer on its own and the connection loop, side by side.
SpecWriteBody == (InitWR \/ Init) /\ [][NextWR \/ Next]_vars

(***************************************************************************)
(* Claims about the connection loop                                        *)
(***************************************************************************)
Finals == SelectSeq(resps, LAMBDA x : x.kind = "final")

\* C1: the i-th final response written to the stream is the response to the
\* i-th request the client sent.
C1_ResponsesInRequestOrder == \A i \in 1..Len(Finals) : Finals[i].r = i

\* C2: every parse_request starts at the first byte of a request (or at the
\* end of the stream), and no use of a request body consumes bytes of a
\* later request.
C2_ParseAligned == parseAt \in {"-", "head", "eof"} /\ ~stolen

\* After a response, the loop is back at parse_request.
GoesOn == pc = "parse"

\* C4: after the response to an HTTP/1.1 request, without an upgrade
\* handler, the loop goes on to parse another request if and only if
\* neither the request nor the response carries Connection: close and the
\* response is not close-delimited.
C4_Http11Persistence ==
    (last.valid /\ last.ok /\ last.version = "HTTP/1.1" /\ ~last.upgrade)
      => (GoesOn <=> (/\ "close" \notin last.conn
                      /\ ~last.resClose
                      /\ last.enc # "CloseDelimited"))

\* C5: after the response to an HTTP/1.0 request the loop goes on only if
\* the request carried Connection: keep-alive; without it the response
\* carries Connection: close and the loop does not go on.
C5_Http10Persistence ==
    (last.valid /\ last.ok /\ last.version = "HTTP/1.0")
      => /\ GoesOn => "keep-alive" \in last.conn
         /\ "keep-alive" \notin last.conn => (last.resClose /\ ~GoesOn)

C11_NoChunkedOnHttp10 ==
    (WrittenResponse /\ FramingChosen /\ wrIn.version = "HTTP/1.0")
      => /\ wrOut.head.h.te # "chunked"
         /\ wrOut.enc \in {"FixedLength", "CloseDelimited"}
         /\ wrOut.out.chunks = <<>>
         /\ ~wrOut.out.term

C11_Witness ==
    /\ WrittenResponse /\ wrOut.ok /\ wrIn.write_body
    /\ wrIn.version = "HTTP/1.0"
    /\ wrIn.h.te = "chunked"
    /\ wrOut.head.h.te = "none"
    /\ wrOut.enc = "CloseDelimited"
    /\ wrOut.out.bytes > 0

(***************************************************************************)
(* Claims about Expect: 100-continue, upgrades and errors in the loop      *)
(***************************************************************************)
LastResponse == resps[Len(resps)]

\* C12: should_continue is consulted only for requests with Expect:
\* 100-continue and before call; when call is about to be invoked for such
\* a request the interim 100 response to it is the last thing written; a
\* rejecting status is a final response after which the loop is back at
\* parse_request, and call is never invoked for the rejected request.
C12_ShouldContinueBeforeCall ==
    /\ pc = "should_continue" => req.expect
    /\ (pc = "call" /\ req.expect) =>
          (resps # <<>> /\ LastResponse = Response(req.r, "interim", "should_continue"))
    /\ (pc = "call" /\ ~req.expect) => (resps = <<>> \/ LastResponse.kind # "interim")
    /\ \A i \in 1..Len(resps) :
          /\ resps[i].kind = "interim" =>
                IF i < Len(resps)
                THEN resps[i + 1] = Response(resps[i].r, "final", "call")
                ELSE pc \in {"call", "done_err"} /\ (pc = "call" => req.r = resps[i].r)
          /\ (resps[i].kind = "final" /\ resps[i].by = "should_continue" /\ resps[i].r # 0) =>
                ~\E j \in 1..Len(resps) : resps[j].r = resps[i].r /\ resps[j].by = "call"
    /\ (last.valid /\ last.via = "reject") =>
          (pc = "parse" /\ LastResponse.kind = "final" /\ LastResponse.by = "should_continue")

C12_Witness ==
    /\ pc = "parse"
    /\ resps = <<Response(1, "interim", "should_continue"), Response(1, "final", "call"),
                 Response(2, "final", "should_continue")>>

\* parse_request is inside the read_exact of a small body whose bytes have
\* not arrived.
WaitsForBody ==
    /\ pc = "parse" /\ held = "reader" /\ ~closed
    /\ wire # <<>> /\ wire[1].k = "head"
    /\ Len(wire) < 1 + EagerBlocks(wire[1])

\* A response (interim or final) to request r has been written.
Answered(r) == \E i \in 1..Len(resps) : resps[i].r = r

\* C13: while the client withholds the body of a request with Expect:
\* 100-continue and no response to that request has been written, the
\* server is not waiting to read bytes of that body.
C13_ResponseBeforeBodyRead ==
    (owed # <<>> /\ ~Answered(owed[1].r)) => ~WaitsForBody

\* C14: after a rejecting status, when the client sends no body, the server
\* does not wait for the unsent body, and the bytes of the client's next
\* request are not consumed as the rejected request's body.
C14_UsableAfterRejection ==
    /\ ~(held = "dropping" /\ owed = <<>> /\ ~closed)
    /\ (last.valid /\ last.via = "reject") => ~stolen

\* The response with the upgrade handler is on the stream.
UpgradeWritten ==
    /\ last.valid /\ last.ok /\ last.upgrade
    /\ resps # <<>> /\ LastResponse.kind = "final" /\ LastResponse.by = "call"

\* C15: the upgrade handler is invoked only after the response carrying it
\* has been written, once, with the connection (the reader and the read
\* queue dropped); from the response on the loop parses no request and
\* writes no response, and it ends when the handler returns.
C15_UpgradeEndsLoop ==
    /\ [](/\ pc \in {"upgrade", "upgraded"} => UpgradeWritten
          /\ (last.valid /\ last.ok /\ last.upgrade) =>
                pc \in {"upgrade", "upgraded", "done_ok"}
          /\ held = "gone" => (UpgradeWritten /\ pc \in {"upgraded", "done_ok"}))
    /\ [][/\ pc = "upgrade" => (pc' \in {"upgrade", "upgraded"} /\ resps' = resps)
          /\ (pc' = "upgraded" /\ pc # "upgraded") => (pc = "upgrade" /\ held' = "gone")
          /\ pc = "upgraded" => (pc' \in {"upgraded", "done_ok"} /\ resps' = resps)
          /\ pc = "done_ok" => (pc' = "done_ok" /\ resps' = resps)]_vars

C15_Witness ==
    /\ pc = "done_ok" /\ held = "gone" /\ UpgradeWritten
    /\ wire # <<>> /\ wire[1].k = "head"

\* C16: when app.call returns an error the loop ends with an error: the
\* step writes nothing, no final response to that request is on the stream,
\* and afterwards nothing is parsed or written.
C16_HandlerErrorEndsLoop ==
    /\ [](last.via = "call_err" => pc = "done_err")
    /\ [][/\ last'.via = "call_err" /\ last.via # "call_err" =>
                /\ pc = "call" /\ pc' = "done_err"
                /\ resps' = resps
                /\ req.r # 0 => ~\E i \in 1..Len(resps) :
                                    resps[i].r = req.r /\ resps[i].kind = "final"
          /\ pc = "done_err" => (pc' = "done_err" /\ resps' = resps /\ wire' = wire)]_vars

C16_Witness ==
    /\ pc = "done_err" /\ last.via = "call_err"
    /\ resps = <<>>
    /\ wire # <<>> /\ wire[1].k = "head" /\ wire[1].r = 2

\* C17: parse_request ends the loop cleanly only at EOF before any byte of
\* a request; a header block cut short by EOF ends the loop with an error,
\* with no response to it.
C17_ParseErrors ==
    /\ parseAt = "eof" => (pc = "done_ok" /\ wire = <<>> /\ closed)
    /\ parseAt = "part" => (pc = "done_err" /\ ~\E i \in 1..Len(resps) : resps[i].r = sent)

(***************************************************************************)
(* The body parser applied to bounded messages                             *)
(***************************************************************************)
\* One entry of a chunked body as the peer wrote it: a chunk with its size
\* line, payload and CRLF ("chunk"), the last-chunk line and the final CRLF
\* ("zero"), a line that is no chunk size ("bad"), a size line cut by EOF
\* ("cut"), a chunk whose payload is cut by EOF ("short").
Entry(k, n, ext) == [k |-> k, n |-> n, ext |-> ext]

EntryKinds ==
    {Entry("chunk", 2, FALSE), Entry("chunk", 3, TRUE), Entry("zero", 0, FALSE),
     Entry("bad", 0, FALSE), Entry("cut", 0, FALSE), Entry("short", 3, FALSE)}

EntryWire(e, i) ==
    CASE e.k = "chunk" -> <<SizeLine(e.n, e.ext), Bytes(i, e.n), CrLf>>
      [] e.k = "zero" -> <<SizeLine(0, FALSE), CrLf>>
      [] e.k = "bad" -> <<BadLine>>
      [] e.k = "cut" -> <<CutLine>>
      [] e.k = "short" -> <<SizeLine(e.n, e.ext), Bytes(i, e.n - 1)>>

RECURSIVE ChunkedWire(_, _)
\* The bytes of the entries from the i-th on.
ChunkedWire(es, i) ==
    IF i > Len(es) THEN <<>> ELSE EntryWire(es[i], i) \o ChunkedWire(es, i + 1)

\* Entry lists: EOF follows a cut line or a cut payload.
EntryLists ==
    {es \in UNION {[1..n -> EntryKinds] : n \in 0..MaxChunks} :
        \A i \in 1..Len(es) : es[i].k \in {"cut", "short"} => i = Len(es)}

\* What the peer sends after the body: nothing, the start of another
\* message, more than one read buffer of it.
Follows == {<<>>, <<Bytes(MaxChunks + 2, 5)>>, <<Bytes(MaxChunks + 2, ReadBuf)>>}

ContentLengths == {None, 0, 3, SmallBody - 1, SmallBody, SmallBody + 1}

Input(te, cl, es, s, view) ==
    [te |-> te, cl |-> cl, entries |-> es, items |-> <<>>, stream |-> s, view |-> view]

ChunkedInputs ==
    {Input("chunked", cl, es, ChunkedWire(es, 1) \o f, view) :
        cl \in {None, 3, SmallBody}, view \in BodyViews,
        es \in EntryLists,
        f \in Follows} 

LengthInputs ==
    {Input(te, cl, <<>>, (IF m = 0 THEN <<>> ELSE <<Bytes(1, m)>>) \o f, view) :
        te \in {"none", "other"}, cl \in ContentLengths \ {None},
        m \in {0, 2, 3, SmallBody - 1, SmallBody, SmallBody + 1},
        f \in Follows, view \in BodyViews}

BareInputs ==
    {Input(te, None, <<>>, f, view) :
        te \in {"none", "other"}, f \in Follows, view \in BodyViews}

\* Inputs the peer can produce: bytes follow a chunked body only after its
\* last-chunk entry, and a Content-Length body is whole or cut by EOF.
ParseInputs ==
    {x \in ChunkedInputs :
        Len(x.stream) > Len(ChunkedWire(x.entries, 1)) =>
            (x.entries # <<>> /\ x.entries[Len(x.entries)].k = "zero")}
    \cup {x \in LengthInputs :
            LET m == IF x.stream = <<>> \/ x.stream[1].id # 1 THEN 0 ELSE x.stream[1].n
            IN  \/ m = x.cl
                \/ m < x.cl /\ Len(x.stream) = (IF m = 0 THEN 0 ELSE 1)}
    \cup BareInputs

InitPB ==
    /\ pbIn \in ParseInputs
    /\ pbOut = NoParsed
    /\ pbPc = "ready"
    /\ IdleWR
    /\ IdleRQ
    /\ IdleCN
    /\ IdleBD
    /\ IdleSV
    /\ IdleCL

\* parse_request / parse_response from the end of the head on.
DoParse ==
    /\ pbPc = "ready"
    /\ LET p == BodyFromHeaders(pbIn.te, pbIn.cl, pbIn.stream)
       IN  /\ pbOut' = [res |-> p.res, body |-> p.body, bytes |-> p.bytes,
                        rest |-> p.rest, out |-> <<>>]
           /\ pbPc' = IF p.res = "Ok" THEN "parsed" ELSE "failed"
    /\ UNCHANGED <<pbIn, wrVars, rqVars, cnVars, bdVars, svVars, clVars>>

\* The caller uses the body up through the view it chose.
DoConsume ==
    /\ pbPc = "parsed"
    /\ LET c == ConsumeBody(pbOut, pbIn.view)
       IN  pbOut' = [pbOut EXCEPT !.out = c.out, !.rest = c.rest]
    /\ pbPc' = "consumed"
    /\ UNCHANGED <<pbIn, wrVars, rqVars, cnVars, bdVars, svVars, clVars>>

NextPB == DoParse \/ DoConsume

SpecParse == InitPB /\ [][NextPB]_vars

(***************************************************************************)
(* Claims about parsed bodies                                              *)
(***************************************************************************)
\* C18: the parser picks the body from the headers alone. Transfer-Encoding
\* chunked gives a chunked body whatever Content-Length says; another
\* Transfer-Encoding fails with InvalidTransferEncoding; otherwise
\* Content-Length n gives a buffered body whose n bytes are read during the
\* parse when n < 1024 and a reader body of declared length n, with nothing
\* read, when n >= 1024; otherwise the body is empty and its len is Some(0).
C18_BodyFromHeaders ==
    pbPc \in {"parsed", "failed"} =>
        CASE pbIn.te = "chunked" ->
                /\ pbOut.res = "Ok" /\ pbOut.body.k = "Iter"
                /\ pbOut.rest = pbIn.stream
          [] pbIn.te = "other" -> pbOut.res = "InvalidTransferEncoding"
          [] pbIn.cl # None /\ pbIn.cl < SmallBody ->
                pbOut.res = "Ok" =>
                    /\ pbOut.body.k = "Buffered" /\ BodyLen(pbOut.body) = pbIn.cl
                    /\ pbOut.bytes = TakeBytes(pbIn.stream, pbIn.cl)
                    /\ ByteCount(pbOut.bytes) = pbIn.cl
                    /\ pbOut.rest = SkipBytes(pbIn.stream, pbIn.cl)
          [] pbIn.cl # None ->
                /\ pbOut.res = "Ok" /\ pbOut.body.k = "Reader"
                /\ BodyLen(pbOut.body) = pbIn.cl
                /\ pbOut.rest = pbIn.stream
          [] OTHER ->
                /\ pbOut.res = "Ok" /\ pbOut.body.k = "Empty"
                /\ BodyLen(pbOut.body) = 0

\* A message with both Transfer-Encoding: chunked and Content-Length: 3 has
\* been parsed into a chunked body.
C18_Witness ==
    /\ pbPc = "parsed"
    /\ pbIn.te = "chunked" /\ pbIn.cl = 3
    /\ pbOut.body.k = "Iter"
    /\ pbIn.entries # <<>>

\* C19: a message parsed with Content-Length n whose n body bytes are on the
\* stream delivers exactly those n bytes, and once the body is used up the
\* stream stands at the first byte after them.
C19_ExactBytes ==
    (/\ pbPc = "consumed"
     /\ pbIn.te = "none" /\ pbIn.cl # None
     /\ ByteCount(pbIn.stream) >= pbIn.cl) =>
        /\ pbIn.view # "drop" => pbOut.out = TakeBytes(pbIn.stream, pbIn.cl)
        /\ pbOut.rest = SkipBytes(pbIn.stream, pbIn.cl)

RECURSIVE LeadingPayloads(_, _)
\* The payloads of the chunks written before the first entry that is not a
\* whole chunk, from the i-th entry on.
LeadingPayloads(es, i) ==
    IF i > Len(es) \/ es[i].k # "chunk" THEN <<>>
    ELSE <<Bytes(i, es[i].n)>> \o LeadingPayloads(es, i + 1)

\* C20: a chunked body delivers the payloads of its chunks in order, each of
\* the size its size line declares, with or without a chunk extension, up
\* to the first size-0 chunk; a size line that does not parse, like EOF,
\* ends the body there.
C20_ChunkedDecoder ==
    (pbPc = "consumed" /\ pbIn.te = "chunked" /\ pbIn.view # "drop") =>
        pbOut.out = LeadingPayloads(pbIn.entries, 1)

\* A body of a 3-byte chunk with an extension, a 2-byte chunk and the last
\* chunk, followed by other bytes, has been read whole.
C20_Witness ==
    /\ pbPc = "consumed" /\ pbIn.te = "chunked" /\ pbIn.view = "into_bytes"
    /\ pbIn.entries = <<Entry("chunk", 3, TRUE), Entry("chunk", 2, FALSE),
                        Entry("zero", 0, FALSE)>>
    /\ Len(pbIn.stream) > Len(ChunkedWire(pbIn.entries, 1))
    /\ pbOut.out = <<Bytes(1, 3), Bytes(2, 2)>>

\* A body whose second size line does not parse has been read: it ended
\* after the first chunk.
C20_WitnessBadLine ==
    /\ pbPc = "consumed" /\ pbIn.te = "chunked" /\ pbIn.view = "into_chunks"
    /\ pbIn.entries = <<Entry("chunk", 2, FALSE), Entry("bad", 0, FALSE),
                        Entry("chunk", 2, FALSE)>>
    /\ pbOut.out = <<Bytes(1, 2)>>

(***************************************************************************)
(* The chunked writer and the chunked reader back to back                  *)
(***************************************************************************)
RECURSIVE WriteChunks_TrailersInline(_, _, _)
\* The chunked arm with each trailer block written where it arrives.
WriteChunks_TrailersInline(chunks, i, trailers) ==
    IF chunks = <<>> \/ Head(chunks).t = "Err"
    THEN <<SizeLine(0, FALSE)>> \o trailers \o <<CrLf>>
    ELSE IF Head(chunks).t = "Data"
    THEN <<SizeLine(Head(chunks).n, FALSE)>>
           \o (IF Head(chunks).n = 0 THEN <<>> ELSE <<Bytes(i, Head(chunks).n)>>)
           \o <<CrLf>> \o WriteChunks_TrailersInline(Tail(chunks), i + 1, trailers)
    ELSE <<TrailerLine(i)>> \o WriteChunks_TrailersInline(Tail(chunks), i + 1, trailers)

RECURSIVE WriteChunks(_, _, _)
\* write_response / write_request, Encoding::Chunked: what the loop over
\* body.into_chunks() puts on the stream from the i-th chunk on, `trailers`
\* being the blocks collected so far. A Data chunk is written at once as
\* "{len:x} CRLF", its bytes, CRLF, whatever its length; a Trailers chunk
\* is kept; after the loop come "0 CRLF", the trailers and CRLF. The
\* iterator ends at an Err item (iter.next()?.ok()?).
WriteChunks(chunks, i, trailers) ==
    IF chunks = <<>> \/ Head(chunks).t = "Err"
    THEN <<SizeLine(0, FALSE)>> \o trailers \o <<CrLf>>
    ELSE IF Head(chunks).t = "Data"
    THEN <<SizeLine(Head(chunks).n, FALSE)>>
           \o (IF Head(chunks).n = 0 THEN <<>> ELSE <<Bytes(i, Head(chunks).n)>>)
           \o <<CrLf>> \o WriteChunks(Tail(chunks), i + 1, trailers)
    ELSE WriteChunks(Tail(chunks), i + 1, trailers \o <<TrailerLine(i)>>)

\* Chunks a body to write yields: Data of no bytes, of a few, of a buffer's
\* worth, and Trailers.
WrittenItems == {DataItem(0), DataItem(3), DataItem(SmallBody), TrailersItem}

WrittenItemSeqs == UNION {[1..k -> WrittenItems] : k \in 0..MaxWritten}

\* The views that deliver bytes.
ReadingViews == BodyViews \ {"drop"}

InitRT ==
    /\ pbIn \in {[te |-> "chunked", cl |-> None, entries |-> <<>>, items |-> its,
                  stream |-> f, view |-> v] :
                    its \in WrittenItemSeqs, f \in Follows, v \in ReadingViews}
    /\ pbOut = NoParsed
    /\ pbPc = "write"
    /\ IdleWR
    /\ IdleRQ
    /\ IdleCN
    /\ IdleBD
    /\ IdleSV
    /\ IdleCL

\* The peer writes the body chunked; what it sends next follows.
DoWriteChunked ==
    /\ pbPc = "write"
    /\ pbIn' = [pbIn EXCEPT !.stream = WriteChunks(pbIn.items, 1, <<>>) \o pbIn.stream]
    /\ pbPc' = "ready"
    /\ UNCHANGED <<pbOut, wrVars, rqVars, cnVars, bdVars, svVars, clVars>>

NextRT == DoWriteChunked \/ DoParse \/ DoConsume

SpecRoundTrip == InitRT /\ [][NextRT]_vars

\* The tokens of the written body, and what was on the stream behind it.
WrittenLen == Len(WriteChunks(pbIn.items, 1, <<>>))
WrittenFollow == SubSeq(pbIn.stream, WrittenLen + 1, Len(pbIn.stream))

RECURSIVE DataPayloads(_, _)
\* The bytes of the Data chunks from the i-th on, in order.
DataPayloads(chunks, i) ==
    IF chunks = <<>> THEN <<>>
    ELSE (IF Head(chunks).t = "Data" /\ Head(chunks).n > 0
          THEN <<Bytes(i, Head(chunks).n)>> ELSE <<>>)
         \o DataPayloads(Tail(chunks), i + 1)

\* C21: what the chunked writer emits for a sequence of Data payloads (of
\* any length, zero included) is read back by the chunked reader as the
\* concatenation of the payloads, and the reader stops exactly at the end
\* of what was written.
C21_RoundTrip ==
    pbPc = "consumed" =>
        /\ pbOut.out = DataPayloads(pbIn.items, 1)
        /\ pbOut.rest = WrittenFollow

\* Positions of the written body's tokens of one kind.
WrittenAt(kind) == {i \in 1..WrittenLen : pbIn.stream[i].k = kind}

\* The Trailers chunks of the body, by their place among its chunks.
TrailersSent == {i \in 1..Len(pbIn.items) : pbIn.items[i].t = "Trailers"}

\* C22: in a chunked write the trailer blocks, wherever the body yields them,
\* come out after every data chunk and after the "0 CRLF" line, and one CRLF
\* ends the message; none stands between data chunks.
C22_TrailersAfterData ==
    pbPc = "ready" =>
        LET n == WrittenLen
            k == Cardinality(TrailersSent)
        IN  /\ pbIn.stream[n] = CrLf
            /\ pbIn.stream[n - k - 1] = SizeLine(0, FALSE)
            /\ WrittenAt("trailer") = (n - k)..(n - 1)
            /\ {pbIn.stream[i].id : i \in WrittenAt("trailer")} = TrailersSent
            /\ \A i \in WrittenAt("data") : i < n - k - 1

\* A body that yields trailers, then data, then trailers again has been
\* written.
C22_Witness ==
    /\ pbPc = "ready"
    /\ pbIn.items = <<TrailersItem, DataItem(3), TrailersItem>>
    /\ WrittenAt("trailer") = {5, 6}

(***************************************************************************)
(* The views of a body applied to bounded bodies                           *)
(***************************************************************************)
RECURSIVE YieldedBeforeErr(_)
\* ChunkIterator's Iter arm: iter.next()?.ok()? ends the iteration at an Err
\* item without yielding it.
YieldedBeforeErr(items) ==
    IF items = <<>> \/ Head(items).t = "Err" THEN <<>>
    ELSE <<Head(items)>> \o YieldedBeforeErr(Tail(items))

\* The items Body::into_chunks yields until it ends.
ChunkItems(b) ==
    CASE b.k = "Empty" -> <<>>
      [] b.k = "Buffered" -> <<DataItem(b.n)>>
      [] b.k = "Iter" -> YieldedBeforeErr(b.items)
      [] b.k = "Reader" ->
            [i \in 1..Len(ReaderChunks(b.n, b.len)) |->
                DataItem(ReaderChunks(b.n, b.len)[i])]

\* Bytes a view takes from the reader behind the body.
FromReader(b, n) == IF b.k = "Reader" THEN n ELSE 0

ViewBytes(b) ==
    ViewResult(IntoBytes(b).ok, IntoBytes(b).n, FromReader(b, IntoBytes(b).n), <<>>)

\* into_reader read to its end: BodyReader's Iter arm never returns an
\* error of the iterator (unwrap_or_default, next.ok()).
ViewReader(b) ==
    ViewResult(TRUE, ReaderBytes(b), FromReader(b, ReaderBytes(b)), <<>>)

ViewChunks(b) ==
    ViewResult(~HasErr(ChunkItems(b)), SumSeq(IntoChunks(b).data),
               FromReader(b, SumSeq(IntoChunks(b).data)), ChunkItems(b))

\* The body as the body of a response built with nothing but a status.
PlainResponse(b) ==
    Message("response", "HTTP/1.1", "-", Headers("none", None, {}), FALSE, TRUE, b)

InitBD ==
    /\ bdIn \in Bodies
    /\ bdOut = [NoViews EXCEPT !.on = TRUE]
    /\ IdleWR
    /\ IdleRQ
    /\ IdleCN
    /\ IdlePB
    /\ IdleSV
    /\ IdleCL

DoIntoBytes ==
    /\ bdOut.on /\ ~bdOut.bytes.done
    /\ bdOut' = [bdOut EXCEPT !.bytes = ViewBytes(bdIn)]
    /\ UNCHANGED <<bdIn, wrVars, rqVars, cnVars, pbVars, svVars, clVars>>

DoIntoReader ==
    /\ bdOut.on /\ ~bdOut.reader.done
    /\ bdOut' = [bdOut EXCEPT !.reader = ViewReader(bdIn)]
    /\ UNCHANGED <<bdIn, wrVars, rqVars, cnVars, pbVars, svVars, clVars>>

DoIntoChunks ==
    /\ bdOut.on /\ ~bdOut.chunks.done
    /\ bdOut' = [bdOut EXCEPT !.chunks = ViewChunks(bdIn)]
    /\ UNCHANGED <<bdIn, wrVars, rqVars, cnVars, pbVars, svVars, clVars>>

\* write_response(res, stream, true) with the body in a plain response.
DoWritePlain ==
    /\ bdOut.on /\ ~bdOut.written.done
    /\ LET w == WriteResponse(PlainResponse(bdIn), TRUE)
       IN  bdOut' = [bdOut EXCEPT
                        !.written = ViewResult(w.ok, w.out.bytes,
                                               FromReader(bdIn, w.out.bytes), <<>>),
                        !.head = w.head.h.cl]
    /\ UNCHANGED <<bdIn, wrVars, rqVars, cnVars, pbVars, svVars, clVars>>

NextBD == DoIntoBytes \/ DoIntoReader \/ DoIntoChunks \/ DoWritePlain

SpecBody == InitBD /\ [][NextBD]_vars

(***************************************************************************)
(* Claims about body views                                                 *)
(***************************************************************************)
\* C23: for a body of any variant the three views agree: into_bytes gives
\* the bytes of the Data chunks of into_chunks, and the bytes read from
\* into_reader up to its end.
C23_ViewsAgree ==
    (bdOut.bytes.done /\ bdOut.reader.done /\ bdOut.chunks.done) =>
        /\ bdOut.bytes.ok
        /\ bdOut.bytes.n = bdOut.chunks.n
        /\ bdOut.bytes.n = bdOut.reader.n

\* C24: a body made by from_reader(r, n) has len Some(n); into_reader and
\* into_bytes deliver the first min(n, what r supplies) bytes of r and take
\* no more than n bytes from r; written as the body of a plain response it
\* goes out under Content-Length: n as those same bytes.
C24_ReaderWithLength ==
    (bdOut.on /\ bdIn.k = "Reader" /\ bdIn.len # None) =>
        /\ BodyLen(bdIn) = bdIn.len
        /\ \A v \in {bdOut.bytes, bdOut.reader, bdOut.written} :
              v.done => /\ v.ok
                        /\ v.n = Min(bdIn.len, bdIn.n)
                        /\ v.eaten <= bdIn.len
        /\ bdOut.written.done => bdOut.head = bdIn.len

\* A reader that supplies more than its declared 3 bytes has been read
\* through into_bytes and into_reader and written as a response.
C24_Witness ==
    /\ bdIn = ReaderBody(SmallBody, 3)
    /\ bdOut.bytes.done /\ bdOut.reader.done /\ bdOut.written.done
    /\ bdOut.written.n = 3 /\ bdOut.head = 3

\* C25: after BodyChannel::abort every view shows an error instead of a
\* normal end: into_bytes returns Err, into_reader read to its end returns
\* Err, into_chunks yields an Err item; a sender merely dropped gives a
\* normal end through each view.
C25_AbortSurfaces ==
    bdIn.k = "Iter" =>
        /\ bdOut.bytes.done => (bdOut.bytes.ok <=> ~HasErr(bdIn.items))
        /\ bdOut.reader.done => (bdOut.reader.ok <=> ~HasErr(bdIn.items))
        /\ bdOut.chunks.done => (HasErr(bdOut.chunks.items) <=> HasErr(bdIn.items))

(***************************************************************************)
(* Claims about dropped request bodies                                     *)
(***************************************************************************)
\* C26: when a request body backed by the connection stream with a declared
\* length is dropped unread, the stream has been read up to the end of that
\* body (or to EOF) by the time the reader is back with the loop: what is
\* unread starts at the next request, and no byte of a later request was
\* taken.
C26_DropDrains ==
    (last.valid /\ last.dropped /\ held = "reader") =>
        /\ wire = <<>> \/ wire[1].k = "head"
        /\ ~stolen

\* A request with a body of SmallBody bytes or more, followed on the stream
\* by another request, was answered without its body being read.
C26_Witness ==
    /\ last.valid /\ last.dropped /\ held = "reader" /\ pc = "parse"
    /\ wire # <<>> /\ wire[1].k = "head" /\ wire[1].r = 2

(***************************************************************************)
(* The acceptor loops of Server and the thread pool                        *)
(***************************************************************************)
Conns == 1..MaxConns

\* The service given to serve_single_thread: one value, used in place.
TheService == MaxConns + 1

InitSV ==
    /\ svMode \in {"serve", "make_service", "serve_single_thread"}
    /\ svIter = 1
    /\ svQueue = <<>>
    /\ svRunning = {}
    /\ svConn = [c \in Conns |-> ConnState("incoming", 0, 0)]
    /\ svCalls = {}
    /\ svMade = 0
    /\ svFailed = {}
    /\ svRet = "none"
    /\ IdleWR
    /\ IdleRQ
    /\ IdleCN
    /\ IdlePB
    /\ IdleBD
    /\ IdleCL

svOthers == <<wrVars, rqVars, cnVars, pbVars, bdVars, clVars>>

\* Server::serve, one turn of `for conn in self.incoming`: the service is
\* cloned and the closure owning conn and the clone goes to the pool.
AcceptServe ==
    /\ svMode = "serve" /\ svIter <= MaxConns /\ svRet = "none"
    /\ svMade' = svMade + 1
    /\ svQueue' = Append(svQueue, Job(svIter, svMade + 1))
    /\ svConn' = [svConn EXCEPT ![svIter].st = "queued"]
    /\ svIter' = svIter + 1
    /\ UNCHANGED <<svMode, svRunning, svCalls, svFailed, svRet, svOthers>>

\* make_service with one handler made before the loop and given to every
\* connection.
AcceptMake_SharedHandler ==
    /\ svMode = "make_service" /\ svIter <= MaxConns /\ svRet = "none"
    /\ \E ok \in BOOLEAN :
         IF ok
         THEN /\ svMade' = 1
              /\ svQueue' = Append(svQueue, Job(svIter, 1))
              /\ svConn' = [svConn EXCEPT ![svIter].st = "queued", ![svIter].hooks = @ + 1]
         ELSE /\ svConn' = [svConn EXCEPT ![svIter].st = "dropped", ![svIter].hooks = @ + 1]
              /\ UNCHANGED <<svMade, svQueue>>
    /\ svIter' = svIter + 1
    /\ UNCHANGED <<svMode, svRunning, svCalls, svFailed, svRet, svOthers>>

\* Server::make_service, one turn of the loop: the hook is called with the
\* connection; Ok(handler) sends the closure owning conn and handler to the
\* pool, Err drops conn at the end of the turn.
AcceptMake ==
    /\ svMode = "make_service" /\ svIter <= MaxConns /\ svRet = "none"
    /\ \E ok \in BOOLEAN :
         IF ok
         THEN /\ svMade' = svMade + 1
              /\ svQueue' = Append(svQueue, Job(svIter, svMade + 1))
              /\ svConn' = [svConn EXCEPT ![svIter].st = "queued", ![svIter].hooks = @ + 1]
         ELSE /\ svConn' = [svConn EXCEPT ![svIter].st = "dropped", ![svIter].hooks = @ + 1]
              /\ UNCHANGED <<svMade, svQueue>>
    /\ svIter' = svIter + 1
    /\ UNCHANGED <<svMode, svRunning, svCalls, svFailed, svRet, svOthers>>

\* serve_single_thread with each connection loop on a thread of its own.
AcceptInline_Spawns ==
    /\ svMode = "serve_single_thread" /\ svIter <= MaxConns /\ svRet = "none"
    /\ svRunning' = svRunning \cup {Job(svIter, TheService)}
    /\ svConn' = [svConn EXCEPT ![svIter].st = "running"]
    /\ svIter' = svIter + 1
    /\ UNCHANGED <<svMode, svQueue, svCalls, svMade, svFailed, svRet, svOthers>>

\* Server::serve_single_thread, one turn of the loop: serve(conn, &mut
\* service) is called in place; the next turn starts when it has returned.
AcceptInline ==
    /\ svMode = "serve_single_thread" /\ svIter <= MaxConns /\ svRet = "none"
    /\ svRunning = {}
    /\ svRunning' = {Job(svIter, TheService)}
    /\ svConn' = [svConn EXCEPT ![svIter].st = "running"]
    /\ svIter' = svIter + 1
    /\ UNCHANGED <<svMode, svQueue, svCalls, svMade, svFailed, svRet, svOthers>>

\* A pool that starts a thread for every job.
WorkerPick_NoLimit ==
    /\ svQueue # <<>>
    /\ svRunning' = svRunning \cup {Head(svQueue)}
    /\ svQueue' = Tail(svQueue)
    /\ svConn' = [svConn EXCEPT ![Head(svQueue).conn].st = "running"]
    /\ UNCHANGED <<svMode, svIter, svCalls, svMade, svFailed, svRet, svOthers>>

\* ThreadPool::new(max_threads): one of the max_threads workers, being
\* idle, takes the oldest job of the queue and runs it.
WorkerPick ==
    /\ svQueue # <<>>
    /\ Cardinality(svRunning) < MaxThreads
    /\ svRunning' = svRunning \cup {Head(svQueue)}
    /\ svQueue' = Tail(svQueue)
    /\ svConn' = [svConn EXCEPT ![Head(svQueue).conn].st = "running"]
    /\ UNCHANGED <<svMode, svIter, svCalls, svMade, svFailed, svRet, svOthers>>

\* serve(conn, app): one request of the connection is handled by app.call.
HandleRequest(j) ==
    /\ j \in svRunning
    /\ svConn[j.conn].handled < MaxConnReqs
    /\ svConn' = [svConn EXCEPT ![j.conn].handled = @ + 1]
    /\ svCalls' = svCalls \cup {<<j.conn, j.handler>>}
    /\ UNCHANGED <<svMode, svIter, svQueue, svRunning, svMade, svFailed, svRet, svOthers>>

\* Mutant of ConnEnd: the Err of a connection loop is returned by the
\* Server method (`?` in place of .ok()).
ConnEnd_Propagates(j) ==
    /\ j \in svRunning
    /\ svRunning' = svRunning \ {j}
    /\ svConn' = [svConn EXCEPT ![j.conn].st = "done"]
    /\ \E ok \in BOOLEAN :
         /\ svFailed' = IF ok THEN svFailed ELSE svFailed \cup {j.conn}
         /\ svRet' = IF ok THEN svRet ELSE "Err"
    /\ UNCHANGED <<svMode, svIter, svQueue, svCalls, svMade, svOthers>>

\* serve(conn, app) returns, Ok or Err (parse error, handler error, write
\* error); the result is discarded by .ok() and the closure or the turn of
\* the loop ends.
ConnEnd(j) ==
    /\ j \in svRunning
    /\ svRunning' = svRunning \ {j}
    /\ svConn' = [svConn EXCEPT ![j.conn].st = "done"]
    /\ \E ok \in BOOLEAN : svFailed' = IF ok THEN svFailed ELSE svFailed \cup {j.conn}
    /\ UNCHANGED <<svMode, svIter, svQueue, svCalls, svMade, svRet, svOthers>>

\* The end of `for conn in self.incoming` and the Ok(()) after it: the
\* iterator is exhausted (under serve_single_thread the last loop, called
\* in place, has returned). The jobs given to the pool go on.
ServeReturns ==
    /\ svRet = "none"
    /\ svIter > MaxConns
    /\ svMode = "serve_single_thread" => svRunning = {}
    /\ svRet' = "Ok"
    /\ UNCHANGED <<svMode, svIter, svQueue, svRunning, svConn, svCalls, svMade, svFailed, svOthers>>

Jobs == {Job(c, h) : c \in Conns, h \in 1..(MaxConns + 1)}

Handles == \E j \in Jobs : HandleRequest(j)
Ends == \E j \in Jobs : ConnEnd(j)

NextSV == AcceptServe \/ AcceptMake \/ AcceptInline \/ WorkerPick \/ Handles \/ Ends \/ ServeReturns

SpecServer == InitSV /\ [][NextSV]_vars

\* An idle worker of the pool, blocked on the job channel, takes a job that
\* is there.
SpecServerFair == SpecServer /\ WF_vars(WorkerPick)

(***************************************************************************)
(* Claims about the acceptor loops                                         *)
(***************************************************************************)
\* The jobs of connection c in the queue, and those running.
QueuedFor(c) == {i \in 1..Len(svQueue) : svQueue[i].conn = c}
RunningFor(c) == {j \in svRunning : j.conn = c}

PoolModes == {"serve", "make_service"}

\* At most max_threads connection loops run, and a connection given to the
\* pool is one job: in the queue, or run by one worker, never both, never
\* twice. The queue keeps the order of the iterator.
PoolConfines ==
    svMode \in PoolModes =>
        /\ Cardinality(svRunning) <= MaxThreads
        /\ \A c \in Conns :
              /\ Cardinality(QueuedFor(c)) + Cardinality(RunningFor(c)) <= 1
              /\ svConn[c].st = "queued" <=> QueuedFor(c) # {}
              /\ svConn[c].st = "running" <=> RunningFor(c) # {}
              /\ svConn[c].handled > 0 => svConn[c].st \in {"running", "done"}
        /\ \A i, k \in 1..Len(svQueue) : i < k => svQueue[i].conn < svQueue[k].conn

\* C27: under serve and make_service no more than max_threads connection
\* loops run at a time, each connection the iterator yields is handled by
\* one worker only, and a connection that finds every worker busy waits in
\* the queue, behind those yielded before it, and is served once it is the
\* oldest waiting and a worker is free.
C27_BoundedPool ==
    /\ []PoolConfines
    /\ \A c \in Conns :
          (/\ svQueue # <<>> /\ Head(svQueue).conn = c
           /\ Cardinality(svRunning) < MaxThreads) ~> (svConn[c].st \in {"running", "done"})

\* Under serve, with max_threads loops running and requests handled on
\* them, a later connection waits in the queue.
C27_Witness ==
    /\ svMode = "serve"
    /\ Cardinality(svRunning) = MaxThreads
    /\ \A j \in svRunning : svConn[j.conn].handled > 0
    /\ svQueue # <<>>
    /\ svConn[Head(svQueue).conn].st = "queued"


\* The handlers that have served a request of connection c.
HandlersOf(c) == {p[2] : p \in {q \in svCalls : q[1] = c}}

\* C28: under make_service the hook has been called once for every
\* connection the acceptor has taken, and for none it has not, so before any
\* request of it is handled; a handler serves the requests of the one
\* connection it was made for, and they are served by no other handler; a
\* connection whose hook failed is never queued or run, none of its requests
\* is handled, and the acceptor has gone on to the next connection.
C28_MakeService ==
    svMode = "make_service" =>
        /\ \A c \in Conns :
              /\ svConn[c].hooks = (IF c < svIter THEN 1 ELSE 0)
              /\ svConn[c].handled > 0 => (svConn[c].hooks = 1 /\ Cardinality(HandlersOf(c)) = 1)
              /\ svConn[c].st = "dropped" =>
                    /\ svConn[c].handled = 0
                    /\ QueuedFor(c) = {} /\ RunningFor(c) = {}
                    /\ svIter > c
        /\ \A p, q \in svCalls : (p[1] = q[1]) <=> (p[2] = q[2])

\* The hook failed for the first connection; the two after it are served,
\* each by a handler of its own.
C28_Witness ==
    /\ svMode = "make_service"
    /\ svConn[1].st = "dropped"
    /\ svConn[2].handled = MaxConnReqs
    /\ svConn[3].handled > 0
    /\ HandlersOf(2) # HandlersOf(3)

\* C29: under serve_single_thread at most one connection loop runs, and a
\* connection is running or has had a request handled only when the loop of
\* every connection the iterator yielded before it has returned.
C29_SingleThread ==
    svMode = "serve_single_thread" =>
        /\ Cardinality(svRunning) <= 1
        /\ svQueue = <<>>
        /\ \A c \in Conns :
              (svConn[c].st = "running" \/ svConn[c].handled > 0) =>
                  \A b \in 1..(c - 1) : svConn[b].st = "done"
        /\ \A p \in svCalls : p[2] = TheService

\* The second connection has a request handled after the loop of the first,
\* which handled requests too, returned.
C29_Witness ==
    /\ svMode = "serve_single_thread"
    /\ svConn[1].st = "done" /\ svConn[1].handled > 0
    /\ svConn[2].st = "running" /\ svConn[2].handled > 0


(***************************************************************************)
(* Claim about the framing of outgoing requests (checked under SpecWR)     *)
(***************************************************************************)
\* C30: write_request frames a request as Chunked if Transfer-Encoding:
\* chunked is present and the version is HTTP/1.1; else, if a Content-Length
\* or a known body length exists, as FixedLength of that length with
\* Content-Length in the written head (unless the two differ or the version
\* cannot be written, when it fails); else as Chunked with Transfer-Encoding:
\* chunked in the written head if the version is HTTP/1.1 and the method is
\* neither GET nor HEAD; and it fails, with nothing written, in every other
\* case. It never frames a request as close-delimited.
C30_RequestFraming ==
    WrittenRequest =>
      LET h == wrIn.h
          blen == BodyLen(wrIn.body)
          out == wrOut.head.h
      IN  /\ wrOut.enc # "CloseDelimited"
          /\ IF h.te = "chunked" /\ wrIn.version = "HTTP/1.1"
             THEN wrOut.enc = "Chunked" /\ out = h
             ELSE IF h.cl # None \/ blen # None
             THEN IF \/ (h.cl # None /\ blen # None /\ h.cl # blen)
                     \/ wrIn.version \notin {"HTTP/1.0", "HTTP/1.1"}
                  THEN ~wrOut.ok /\ ~FramingChosen
                  ELSE /\ wrOut.enc = "FixedLength"
                       /\ wrOut.n = (IF h.cl # None THEN h.cl ELSE blen)
                       /\ out = [h EXCEPT !.cl = wrOut.n]
             ELSE IF wrIn.version = "HTTP/1.1" /\ wrIn.method \notin {"GET", "HEAD"}
             THEN wrOut.enc = "Chunked" /\ out = [h EXCEPT !.te = "chunked"]
             ELSE ~wrOut.ok /\ ~FramingChosen /\ wrOut.out = NoBodyOut

\* A HEAD request on HTTP/1.1 with a body of unknown length and no framing
\* header was handed to write_request, which failed.
C30_Witness ==
    /\ WrittenRequest
    /\ wrIn.version = "HTTP/1.1" /\ wrIn.method = "HEAD"
    /\ wrIn.h = Headers("none", None, {})
    /\ BodyLen(wrIn.body) = None
    /\ ~wrOut.ok

\* The same request as POST was written chunked, with Transfer-Encoding:
\* chunked put in its head.
C30_WitnessChunked ==
    /\ WrittenRequest
    /\ wrIn.version = "HTTP/1.1" /\ wrIn.method = "POST"
    /\ wrIn.h = Headers("none", None, {})
    /\ BodyLen(wrIn.body) = None
    /\ wrOut.enc = "Chunked" /\ wrOut.head.h.te = "chunked"


(***************************************************************************)
(* client.rs: send on one connection, answered by a server                 *)
(***************************************************************************)
\* A block of the bytes a server sends for response r: its "head"; "body"
\* (half of a Content-Length body of SmallBody bytes or more, or a whole
\* smaller one); "chunk" (a size line, its payload and CRLF); "last" (the
\* line of the zero-size chunk); "trailers" (the trailer lines); "crlf" (the
\* blank line that ends a chunked body).
RespBlock(r, k) == [r |-> r, k |-> k]

\* The framing headers of a response head: Content-Length below SmallBody,
\* Content-Length from SmallBody on, Transfer-Encoding: chunked without and
\* with trailers, or none.
RespFramings == {"small", "large", "chunked", "trailers", "none"}

\* An exchange: the method of the request and the response the server
\* gives: its framing, whether it carries Connection: close, its status.
Exchanges ==
    {x \in [method : {"GET", "HEAD"}, fr : RespFramings, close : BOOLEAN, status : {200, 101}] :
        x.status = 101 => (x.fr = "none" /\ x.method = "GET")}

\* The bytes of the response to exchange x, the r-th on the connection: a
\* response to HEAD, and one with status 101, has the head only.
ResponseWire(r, x) ==
    <<RespBlock(r, "head")>> \o
    (IF x.method = "HEAD" THEN <<>>
     ELSE CASE x.fr = "small" -> <<RespBlock(r, "body")>>
            [] x.fr = "large" -> <<RespBlock(r, "body"), RespBlock(r, "body")>>
            [] x.fr = "chunked" ->
                 <<RespBlock(r, "chunk"), RespBlock(r, "chunk"), RespBlock(r, "last"),
                   RespBlock(r, "crlf")>>
            [] x.fr = "trailers" ->
                 <<RespBlock(r, "chunk"), RespBlock(r, "last"), RespBlock(r, "trailers"),
                   RespBlock(r, "crlf")>>
            [] OTHER -> <<>>)

\* The number of blocks a body of the framing declares.
DeclaredBlocks(fr) == IF fr = "small" THEN 1 ELSE IF fr = "large" THEN 2 ELSE 0

\* What is left of s after its leading blank lines: parse_response appends
\* them to the header block, where httparse skips them.
SkipEmptyLines(s) ==
    LET F[i \in 1..(Len(s) + 1)] ==
          IF i <= Len(s) /\ s[i].k = "crlf" THEN F[i + 1] ELSE i
    IN  SubSeq(s, F[1], Len(s))

\* The chunks ChunkedReader takes off s: every "chunk" in front, and the
\* "last" line if it follows; any other line ends the body as well.
ChunksTaken(s) ==
    LET F[i \in 1..(Len(s) + 1)] ==
          IF i <= Len(s) /\ s[i].k = "chunk" THEN F[i + 1] ELSE i
        n == F[1] - 1
    IN  [got |-> SubSeq(s, 1, n),
         eaten |-> IF n < Len(s) /\ s[n + 1].k = "last" THEN n + 1 ELSE n]

\* Mutant of ConnectionOutcome: the status is looked at before the
\* Connection header.
ConnectionOutcome_StatusFirst(close, status) ==
    IF status = 101 THEN "Upgrade"
    ELSE IF close THEN "Close"
    ELSE "KeepAlive"

\* send's `let outcome = ...`
ConnectionOutcome(close, status) ==
    LET asks_for_close == close
    IN  IF asks_for_close THEN "Close"
        ELSE IF status = 101 THEN "Upgrade"
        ELSE "KeepAlive"

\* What send returned: st is "ok", "err" (parse_response failed) or "hung"
\* (read_exact waits for bytes that do not come); the body parse_response
\* made ("none", "buffered", "reader" with a declared length, "eof" for a
\* reader without, "iter" for ChunkedReader), the blocks it has yielded, and
\* whether the caller is done with it.
SendResult(st, outcome, body, got, done) ==
    [st |-> st, outcome |-> outcome, body |-> body, got |-> got, done |-> done]

\* parse_response's `let body = ...` by the framing headers and Connection.
ResponseBody(x) ==
    CASE x.fr \in {"chunked", "trailers"} -> "iter"
      [] x.fr = "small" -> "buffered"
      [] x.fr = "large" -> "reader"
      [] x.close -> "eof"
      [] OTHER -> "none"

InitCL ==
    /\ clRq = <<>>
    /\ clSock = <<>>
    /\ clBuf = <<>>
    /\ clRes = <<>>
    /\ clConn = "open"
    /\ IdleWR
    /\ IdleRQ
    /\ IdleCN
    /\ IdlePB
    /\ IdleBD
    /\ IdleSV

clOthers == <<wrVars, rqVars, cnVars, pbVars, bdVars, svVars>>

\* send(connection, req): the request is written and flushed, the server
\* answers, and parse_response reads the head through a BufReader made for
\* this call, which takes off the socket as much as has arrived (ahead
\* blocks past the head); a small body is read at once. The connection comes
\* back inside the outcome; on an error it is dropped with the writer.
Send ==
    /\ clConn = "open"
    /\ Len(clRq) < MaxSends
    /\ \E x \in Exchanges :
         LET r == Len(clRq) + 1
             arrived == SkipEmptyLines(clSock \o ResponseWire(r, x))
         IN  /\ clRq' = Append(clRq, x)
             /\ IF arrived[1] # RespBlock(r, "head")
                THEN /\ clRes' = Append(clRes, SendResult("err", "None", "none", <<>>, TRUE))
                     /\ clBuf' = Append(clBuf, <<>>)
                     /\ clSock' = Tail(arrived)
                     /\ clConn' = "lost"
                ELSE \E ahead \in 0..(Len(arrived) - 1) :
                       LET buf == SubSeq(arrived, 2, ahead + 1)
                           sock == SubSeq(arrived, ahead + 2, Len(arrived))
                           body == ResponseBody(x)
                           outcome == ConnectionOutcome(x.close, x.status)
                       IN  IF body = "buffered" /\ buf \o sock = <<>>
                           THEN /\ clRes' = Append(clRes, SendResult("hung", "None", "none", <<>>, TRUE))
                                /\ clBuf' = Append(clBuf, <<>>)
                                /\ clSock' = <<>>
                                /\ clConn' = "stuck"
                           ELSE /\ clRes' = Append(clRes,
                                       SendResult("ok", outcome, body,
                                                  IF body = "buffered" THEN <<Head(buf \o sock)>> ELSE <<>>,
                                                  body \in {"none", "buffered"}))
                                /\ clBuf' = Append(clBuf,
                                       IF body \in {"none", "buffered"} THEN <<>> ELSE buf)
                                /\ clSock' = IF body = "buffered" /\ buf = <<>> THEN Tail(sock) ELSE sock
                                /\ clConn' = CASE outcome = "Close" -> "closed"
                                               [] outcome = "Upgrade" -> "upgraded"
                                               [] OTHER -> "open"
    /\ UNCHANGED clOthers

\* The blocks a body takes when it is read to its end, from its BufReader
\* first and from the socket then: [got, eaten].
BodyTakes(r) ==
    LET s == clBuf[r] \o clSock
    IN  CASE clRes[r].body = "reader" ->
               [got |-> SubSeq(s, 1, DeclaredBlocks(clRq[r].fr)),
                eaten |-> DeclaredBlocks(clRq[r].fr)]
          [] clRes[r].body = "iter" -> ChunksTaken(s)
          [] OTHER -> [got |-> s, eaten |-> Len(s)]

\* The socket after a body that held buf took n blocks.
SockAfter(buf, n) ==
    IF n <= Len(buf) THEN clSock ELSE SubSeq(clSock, n - Len(buf) + 1, Len(clSock))

\* The caller reads the body of response r to its end (into_bytes, or
\* into_reader and read_to_end) and drops it, its BufReader with it. A
\* reader with a declared length waits until that many bytes have come.
ReadBody(r) ==
    /\ r \in 1..Len(clRes)
    /\ ~clRes[r].done
    /\ clRes[r].body = "reader" => Len(clBuf[r] \o clSock) >= DeclaredBlocks(clRq[r].fr)
    /\ LET t == BodyTakes(r)
       IN  /\ clRes' = [clRes EXCEPT ![r].got = t.got, ![r].done = TRUE]
           /\ clSock' = SockAfter(clBuf[r], t.eaten)
    /\ clBuf' = [clBuf EXCEPT ![r] = <<>>]
    /\ UNCHANGED <<clRq, clConn, clOthers>>

\* The caller drops the response unread: Drop for Body drains a reader
\* with a declared length and nothing else.
DropBody(r) ==
    /\ r \in 1..Len(clRes)
    /\ ~clRes[r].done
    /\ clRes[r].body = "reader" => Len(clBuf[r] \o clSock) >= DeclaredBlocks(clRq[r].fr)
    /\ clSock' = IF clRes[r].body = "reader"
                 THEN SockAfter(clBuf[r], BodyTakes(r).eaten)
                 ELSE clSock
    /\ clRes' = [clRes EXCEPT ![r].done = TRUE]
    /\ clBuf' = [clBuf EXCEPT ![r] = <<>>]
    /\ UNCHANGED <<clRq, clConn, clOthers>>

Reads == \E r \in 1..MaxSends : ReadBody(r)
Drops == \E r \in 1..MaxSends : DropBody(r)

NextCL == Send \/ Reads \/ Drops

SpecSend == InitCL /\ [][NextCL]_vars

\* C31: send returns Close when the response carries Connection: close,
\* else Upgrade when its status is 101, else KeepAlive with the connection;
\* and an exchange on a connection that came back as KeepAlive gives the
\* response the server sent to it: send parses it from its own head, and
\* the body of every response holds bytes of that response only.
C31_ClientReuse ==
    \A r \in 1..Len(clRes) :
        /\ clRes[r].st = "ok" =>
              clRes[r].outcome =
                 (IF clRq[r].close THEN "Close"
                  ELSE IF clRq[r].status = 101 THEN "Upgrade" ELSE "KeepAlive")
        /\ r > 1 => clRes[r].st = "ok"
        /\ \A i \in 1..Len(clRes[r].got) : clRes[r].got[i].r = r


(***************************************************************************)
(* Claim about the interim response (checked under SpecWR)                 *)
(***************************************************************************)
\* The response serve builds when should_continue returns 100 is handed to
\* write_response with write_body = true; write_response does not look at
\* the status.
InterimWritten ==
    /\ WrittenResponse
    /\ wrIn.version = BareResponse(100).version
    /\ wrIn.h = BareResponse(100).h
    /\ wrIn.body = BareResponse(100).body
    /\ wrIn.upgrade = BareResponse(100).upgrade
    /\ wrIn.write_body

\* C32: the interim response written when should_continue returns 100 is a
\* bare head: the status line and the blank line, with no header field (no
\* Content-Length, no Transfer-Encoding, no Connection) and no body.
C32_BareInterim ==
    InterimWritten =>
        /\ wrOut.ok
        /\ wrOut.head.h = Headers("none", None, {})
        /\ wrOut.out = NoBodyOut


\* A head without Transfer-Encoding whose Content-Length is SmallBody or
\* more has been given to the parser.
LargeLength == pbPc # "ready" /\ pbIn.te = "none" /\ pbIn.cl # None /\ pbIn.cl >= SmallBody

\* C33: for a message with Content-Length n >= 1024 the parser returns with
\* the header block consumed and nothing else: the body is a reader of
\* declared length n over the stream as it stood after the head, whether the
\* body bytes are there, are fewer than n, or have not come at all; bytes
\* leave the stream only when the body is used up or dropped.
C33_LazyLargeBody ==
    LargeLength =>
        /\ pbPc # "failed"
        /\ pbPc = "parsed" =>
              /\ pbOut.res = "Ok" /\ pbOut.body.k = "Reader"
              /\ pbOut.body.len = pbIn.cl
              /\ pbOut.bytes = <<>>
              /\ pbOut.rest = pbIn.stream
        /\ ByteCount(pbOut.rest) < ByteCount(pbIn.stream) => pbPc = "consumed"

\* A head with Content-Length 1025 has been parsed while three bytes of its
\* body were there; all three are still on the stream.
C33_Witness ==
    /\ LargeLength /\ pbPc = "parsed"
    /\ pbIn.cl = SmallBody + 1
    /\ ByteCount(pbIn.stream) = 3
    /\ pbOut.rest = pbIn.stream

\* The same body dropped: the three bytes have been drained.
C33_WitnessDropped ==
    /\ LargeLength /\ pbPc = "consumed"
    /\ pbIn.cl = SmallBody + 1 /\ pbIn.view = "drop"
    /\ ByteCount(pbIn.stream) = 3
    /\ pbOut.rest = <<>>


\* C34: for a reader body with a declared length, the Data chunks of
\* into_chunks hold no more bytes than the length declared, and no more
\* than that have been taken from the reader behind it.
C34_ChunksBounded ==
    (bdOut.on /\ bdIn.k = "Reader" /\ bdIn.len # None /\ bdOut.chunks.done) =>
        /\ bdOut.chunks.n <= bdIn.len
        /\ bdOut.chunks.eaten <= bdIn.len


(***************************************************************************)
(* Claim about an aborted response body (checked under SpecWR)             *)
(***************************************************************************)
\* C35: when the channel body of a response ends with the error of abort,
\* write_response does not return KeepAlive for it, and under chunked
\* framing it does not write the zero-size chunk that ends a body.
C35_AbortNotComplete ==
    (/\ WrittenResponse /\ wrIn.write_body
     /\ wrIn.body.k = "Iter" /\ HasErr(wrIn.body.items)) =>
        /\ ~(wrOut.ok /\ wrOut.outcome = "KeepAlive")
        /\ wrOut.enc = "Chunked" => ~wrOut.out.term


\* The body on the stream is whole: chunks, then the last chunk.
WholeChunkedBody ==
    /\ pbIn.te = "chunked"
    /\ pbIn.entries # <<>>
    /\ \A i \in 1..Len(pbIn.entries) :
          pbIn.entries[i].k = (IF i = Len(pbIn.entries) THEN "zero" ELSE "chunk")

\* C36: when a whole chunked body has been read to its end, every byte of
\* it has left the stream, the zero-size chunk line and the blank line after
\* it included: the stream stands at the first byte that follows the body,
\* or at its end when nothing follows.
C36_DecoderConsumesAll ==
    (pbPc = "consumed" /\ WholeChunkedBody /\ pbIn.view # "drop") =>
        pbOut.rest = SubSeq(pbIn.stream, Len(ChunkedWire(pbIn.entries, 1)) + 1,
                            Len(pbIn.stream))


(***************************************************************************)
(* Claim about the connection handed to an upgrade handler                 *)
(***************************************************************************)
\* The transports a Connection wraps, and the type downcast gives for each.
Transports == {"Tcp", "Unix", "Rustls"}

ConcreteType(tr) ==
    CASE tr = "Tcp" -> "TcpStream"
      [] tr = "Unix" -> "UnixStream"
      [] tr = "Rustls" -> "StreamOwned"

\* The handles to the stream serve holds or has handed on: conn, inside the
\* writer and then given to the upgrade handler, and the clone inside the
\* BufReader the read queue passes along, as long as that reader lives.
StreamHandles == 1 + (IF held = "gone" THEN 0 ELSE 1)

\* Connection::downcast::<T>() of a connection over transport tr when
\* handles handles to it exist: a TLS connection is taken out of its Arc
\* first, which needs the handle to be the only one.
Downcast(tr, T, handles) ==
    IF tr = "Rustls"
    THEN handles = 1 /\ T = ConcreteType(tr)
    ELSE T = ConcreteType(tr)

\* C37: while the upgrade handler runs, the pending QueuedReader and the
\* read queue have been dropped, and the buffered reader with them; the
\* response that carries the upgrade is on the stream; the connection the
\* handler was given is the only handle left, and its downcast to the type
\* of its transport succeeds.
C37_UpgradeOwnsStream ==
    pc = "upgraded" =>
        /\ held = "gone"
        /\ UpgradeWritten
        /\ StreamHandles = 1
        /\ \A tr \in Transports : Downcast(tr, ConcreteType(tr), StreamHandles)

\* The handler runs on a connection on which a pipelined request is still
\* unread.
C37_Witness ==
    /\ pc = "upgraded" /\ held = "gone"
    /\ wire # <<>> /\ wire[1].k = "head"
    /\ Downcast("Rustls", "StreamOwned", StreamHandles)


(***************************************************************************)
(* Claim about the read-queue chain under holders that drop their readers  *)
(***************************************************************************)
\* SpecRQ with every holder eventually dropping its QueuedReader: the drop
\* of a QueuedReader that holds the reader proceeds, and the drop of a
\* waiting one proceeds once its recv() can return.
SpecRQFair ==
    /\ SpecRQ
    /\ \A i \in 1..MaxReaders : WF_vars(i \in Readers /\ DropCurrent(i))
    /\ \A i \in 1..MaxReaders : WF_vars(i \in Readers /\ DropWaiting(i))

\* C38: the QueuedReaders obtain the underlying reader in enqueue order and
\* none twice (the k-th to obtain it is the k-th enqueued); a dropped
\* QueuedReader has had it and passed it on, so the reader is never lost
\* while a successor or the queue can still receive it; and every
\* QueuedReader enqueued eventually obtains it.
C38_ChainNeverStarves ==
    /\ [](\A k \in 1..Len(rqGot) : rqGot[k] = k)
    /\ [](\A i \in Readers : qr[i] # "Waiting" <=> i <= Len(rqGot))
    /\ [](\A i \in Readers :
            (qr[i] = "Dropped" /\ (i < Len(qr) \/ rqAlive)) =>
                \/ chan[i] = 1
                \/ i < Len(qr) /\ qr[i + 1] # "Waiting")
    /\ \A i \in 1..MaxReaders : (Len(qr) >= i) ~> (Len(rqGot) >= i)

\* Three QueuedReaders were enqueued; the second never read and was dropped
\* while waiting, and the third has obtained the reader after it.
C38_Witness ==
    /\ Len(qr) = 3
    /\ qr[2] = "Dropped"
    /\ rqRead[2] = 0
    /\ rqGot = <<1, 2, 3>>
    /\ qr[3] = "Current"


(***************************************************************************)
(* Claim about connection loops that fail                                  *)
(***************************************************************************)
Accepts == AcceptServe \/ AcceptMake \/ AcceptInline

\* The acceptor is at the top of its `for conn in self.incoming` with a
\* connection to take (under serve_single_thread: the loop called in place
\* has returned).
AcceptorReady ==
    /\ svRet = "none"
    /\ svIter <= MaxConns
    /\ svMode = "serve_single_thread" => svRunning = {}

\* C39: whatever connection loops have failed, the acceptor goes on taking
\* connections and the running loops go on handling requests; the step in
\* which a loop fails changes nothing but that connection's own state; and
\* the Server method returns nothing but Ok, and only with the iterator
\* exhausted.
C39_FailureConfined ==
    /\ [](svRet \in {"none", "Ok"} /\ (svRet = "Ok" => svIter > MaxConns))
    /\ [](AcceptorReady => ENABLED Accepts)
    /\ [](\A j \in svRunning : svConn[j.conn].handled < MaxConnReqs => ENABLED HandleRequest(j))
    /\ [][\A c \in Conns :
            (c \in svFailed' /\ c \notin svFailed) =>
                /\ svIter' = svIter /\ svQueue' = svQueue /\ svRet' = svRet
                /\ svCalls' = svCalls /\ svMade' = svMade
                /\ svRunning' = svRunning \ RunningFor(c)
                /\ \A b \in Conns \ {c} : svConn'[b] = svConn[b]]_vars

\* The loop of the first connection failed; the second connection had all
\* its requests handled and its loop returned Ok; the Server method has
\* returned Ok after the last connection.
C39_Witness ==
    /\ 1 \in svFailed
    /\ svConn[1].handled > 0
    /\ 2 \notin svFailed
    /\ svConn[2].st = "done" /\ svConn[2].handled = MaxConnReqs
    /\ svRet = "Ok"

\* The same under the thread pool, with the later connection still served
\* by the worker the failed loop ran on or by another.
C39_WitnessPool ==
    /\ svMode = "serve"
    /\ 1 \in svFailed
    /\ svConn[3].st = "running" /\ svConn[3].handled > 0


(***************************************************************************)
(* Claim about writers failing in the framing decision (under SpecWR)      *)
(***************************************************************************)
\* The framing decision of the message written fails: Content-Length
\* differs from the known body length, or (a request) the body's size
\* cannot be determined.
LengthMismatch ==
    /\ wrIn.h.cl # None
    /\ BodyLen(wrIn.body) # None
    /\ wrIn.h.cl # BodyLen(wrIn.body)
    /\ ~(wrIn.h.te = "chunked" /\ wrIn.version = "HTTP/1.1")

UndeterminableSize ==
    /\ wrIn.msg = "request"
    /\ wrIn.h.cl = None
    /\ BodyLen(wrIn.body) = None
    /\ ~(wrIn.h.te = "chunked" /\ wrIn.version = "HTTP/1.1")
    /\ wrIn.method \in {"GET", "HEAD"} \/ wrIn.version # "HTTP/1.1"

\* C40: a write_response or write_request that fails in the framing
\* decision has put nothing on the stream: no start line, no header, no
\* body byte, no chunk.
C40_FailsBeforeWriting ==
    (wrPc = "done" /\ (LengthMismatch \/ UndeterminableSize)) =>
        /\ ~wrOut.ok
        /\ wrOut.head = NoHead
        /\ wrOut.out = NoBodyOut

\* A GET request whose body is an iterator that would yield data was
\* refused with nothing written.
C40_Witness ==
    /\ WrittenRequest
    /\ wrIn.method = "GET" /\ wrIn.version = "HTTP/1.1"
    /\ wrIn.h = Headers("none", None, {})
    /\ wrIn.body.k = "Iter" /\ Len(wrIn.body.items) > 0
    /\ ~wrOut.ok /\ wrOut.head = NoHead

\* A response with Content-Length 3 over a buffered body of another length
\* was refused with nothing written.
C40_WitnessResponse ==
    /\ WrittenResponse /\ wrIn.write_body
    /\ wrIn.h.cl = 3 /\ wrIn.h.te = "none"
    /\ wrIn.body.k = "Buffered" /\ BodyLen(wrIn.body) # 3
    /\ ~wrOut.ok /\ wrOut.out = NoBodyOut

====
